---- MODULE Spec2Model ----
(***************************************************************************)
(* Model of the summarization pipeline of news-ai-agent:                   *)
(*   backend/src/handlers/summarizeNews.ts   (summarizeImpl, callOpenAI,   *)
(*                                            makeSummCacheKey)            *)
(*   backend/src/summarize/normalizeBlocks.ts (normalizeBlocksForCache)    *)
(*   backend/src/summarize/styleAwareFallback.ts                           *)
(*   backend/src/utils/upstashClient.ts      (get / setex / incr / expire) *)
(*   backend/src/handlers/searchNews.ts      (the rate limit of searchNews)*)
(*   backend/src/core/summarize.ts           (summarizeBatch)              *)
(*   backend/src/summarize/buildPromptJson.ts (the items of the prompt)    *)
(*   backend/src/utils/rateLimiter.ts        (RateLimiter.check)           *)
(*                                                                         *)
(* Representation of JavaScript values:                                    *)
(*  - a string is a sequence of atoms.  The atoms " " and "\n" are the     *)
(*    whitespace characters; every other atom is a piece of text that      *)
(*    starts and ends with a non-whitespace character, or (for the         *)
(*    literals of the formatter) sits strictly inside a string.  "" is     *)
(*    <<>>.                                                                *)
(*  - a value that may be undefined is a set with at most one element:     *)
(*    {} is undefined, {v} is v.                                           *)
(*  - an object is a function from the keys that are present (with a       *)
(*    defined value) to their values; JSON.stringify / JSON.parse keep     *)
(*    exactly these keys.                                                  *)
(*  - a character outside ASCII is written by its code point, U+2014     *)
(*    for the em dash.                                                     *)
(*  - a JSON value of a type other than string, where the code expects a   *)
(*    string, is the reserved value NonString.                             *)
(*  - the idx of a block as the model sends it is [n |-> k] for the        *)
(*    number k and [nan |-> TRUE] for anything that is not a finite number.*)
(***************************************************************************)
EXTENDS Integers, Sequences, FiniteSets, TLC

VARIABLES
    store,        \* Upstash: key -> [value, expiresAt] for the keys that were set
    now,          \* wall clock, seconds
    upstash,      \* UPSTASH_REDIS_REST_URL and _TOKEN are both configured
    DISABLE_CACHE,\* SUMM_DEBUG_NOCACHE === "1"
    modelName,    \* OPENAI_MODEL_QUALITY
    pc,           \* position of summarizeImpl in the request being served
    body,         \* the parsed request body of the request being served
                  \* (Unparsed when JSON.parse threw)
    cacheGot,     \* what upstash.get returned to this request ({} = null / not called)
    modelCalls,   \* the callOnce attempts of this request, in order
    raw,          \* what callOpenAI returned ({} = it threw or was not called)
    payload,      \* the payload assembled by this request ({} = none yet)
    written,      \* the values this request passed to setex
    faults,       \* the store failures met by this request
    resp,         \* the response of this request ({} = none yet)
    nreq,         \* number of requests received so far
    args,         \* the arguments of a function under test
    result,       \* what the function returned ({} = not called yet)
    batch,        \* summarizeBatch in progress: index, results, workers (<<>> = none)
    checks,       \* the RateLimiter.check calls started so far, finished or not
    page          \* the state of the frontend page while handleRun runs

vars == <<store, now, upstash, DISABLE_CACHE, modelName, pc, body, cacheGot,
          modelCalls, raw, payload, written, faults, resp, nreq, args, result, batch, checks, page>>

-----------------------------------------------------------------------------
(* Bounds of the model *)

MaxRequests == 2      \* requests served in one behaviour
MaxTicks == 2         \* clock advances in one behaviour
TickSeconds == 150    \* seconds in one clock advance
MaxBlocks == 2        \* length of a candidate block array
MaxKeyItems == 3      \* length of an items array handed to makeSummCacheKey
MaxSearches == 4      \* search requests served in one behaviour
MaxArticles == 4      \* length of the articles array handed to summarizeBatch
MaxFmtItems == 11     \* length of an items array handed to styleAwareFallback
MaxChecks == 3        \* RateLimiter.check calls started in one behaviour

(* Program constants *)

SUMM_V == "7"                 \* summarizeNews.ts:68
TTL_SECONDS == 300            \* summarizeNews.ts:341
FIRST_TIMEOUT_MS == 12000     \* summarizeNews.ts:146
RETRY_TIMEOUT_MS == 8000      \* summarizeNews.ts:151
DEFAULT_MAX_ITEMS == 8        \* summarizeNews.ts:197
MAX_ITEMS_CAP == 25           \* summarizeNews.ts:197
RATE_LIMIT_MAX_DEFAULT == 60          \* searchNews.ts:134
RATE_LIMIT_WINDOW_DEFAULT == 300      \* searchNews.ts:135
SEARCH_TTL_SECONDS == 120                 \* searchNews.ts:354
BATCH_CONCURRENCY_DEFAULT == 3        \* core/summarize.ts:83
BATCH_CONCURRENCY_CAP == 8            \* core/summarize.ts:83

-----------------------------------------------------------------------------
(* Strings *)

Whitespace == {" ", "\n"}
NonString == <<"#not-a-string">>

\* obj.key for an object with optional keys
Get(o, k) == IF k \in DOMAIN o THEN {o[k]} ELSE {}
\* the value of a defined optional
The(opt) == CHOOSE v \in opt : TRUE
\* a ?? d
OrElse(opt, d) == IF opt = {} THEN d ELSE The(opt)
\* an object from a key and an optional value
Field(k, opt) == IF opt = {} THEN <<>> ELSE k :> The(opt)

RECURSIVE trimStart(_)
trimStart(s) ==
    IF s # <<>> /\ Head(s) \in Whitespace THEN trimStart(Tail(s)) ELSE s

RECURSIVE trimEnd(_)
trimEnd(s) ==
    IF s # <<>> /\ s[Len(s)] \in Whitespace
    THEN trimEnd(SubSeq(s, 1, Len(s) - 1)) ELSE s

\* String.prototype.trim
trim(s) == trimEnd(trimStart(s))

\* s.split(/\s+/).filter(Boolean): the maximal runs of non-whitespace atoms
RECURSIVE splitWords(_, _, _)
splitWords(s, cur, acc) ==
    IF s = <<>> THEN (IF cur = <<>> THEN acc ELSE Append(acc, cur))
    ELSE IF Head(s) \in Whitespace
         THEN splitWords(Tail(s), <<>>, IF cur = <<>> THEN acc ELSE Append(acc, cur))
         ELSE splitWords(Tail(s), Append(cur, Head(s)), acc)

\* arr.join(sep)
RECURSIVE join(_, _)
join(arr, sep) ==
    IF arr = <<>> THEN <<>>
    ELSE IF Len(arr) = 1 THEN arr[1]
    ELSE arr[1] \o sep \o join(Tail(arr), sep)

\* String(n) for n >= 0, one atom per digit
Digit == <<"0", "1", "2", "3", "4", "5", "6", "7", "8", "9">>
RECURSIVE NumStr(_)
NumStr(n) == IF n < 10 THEN <<Digit[n + 1]>>
             ELSE Append(NumStr(n \div 10), Digit[(n % 10) + 1])

\* String.prototype.toLowerCase, atom by atom
lowerAtom(a) ==
    CASE a = "D" -> "d" [] a = "E" -> "e" [] a = "M" -> "m"
      [] a = "I" -> "i" [] a = "N" -> "n"
      [] a = "Headline-First" -> "headline-first"
      [] a = "KeyPoint" -> "keypoint"
      [] a = "RISKS" -> "risks"
      [] a \in {"X-Internal-Token", "X-INTERNAL-TOKEN"} -> "x-internal-token"
      [] OTHER -> a
toLowerCase(s) == [i \in 1..Len(s) |-> lowerAtom(s[i])]

\* String.prototype.toUpperCase, atom by atom
toUpperCase(s) ==
    [i \in 1..Len(s) |-> CASE s[i] \in {"options", "Options"} -> "OPTIONS"
                             [] s[i] = "post" -> "POST"
                             [] OTHER -> s[i]]

\* String.prototype.includes
includes(s, sub) ==
    \E i \in 0..(Len(s) - Len(sub)) : SubSeq(s, i + 1, i + Len(sub)) = sub

\* collation order of the atoms that occur in urls and titles
Collation == <<" ", "a", "b", "c", "x">>
Rank(a) == CHOOSE i \in 1..Len(Collation) : Collation[i] = a

\* String.prototype.localeCompare on strings over Collation: -1, 0 or 1
RECURSIVE localeCompare(_, _)
localeCompare(x, y) ==
    IF x = <<>> /\ y = <<>> THEN 0
    ELSE IF x = <<>> THEN -1
    ELSE IF y = <<>> THEN 1
    ELSE IF Rank(Head(x)) < Rank(Head(y)) THEN -1
    ELSE IF Rank(Head(x)) > Rank(Head(y)) THEN 1
    ELSE localeCompare(Tail(x), Tail(y))

-----------------------------------------------------------------------------
(* Dates: new Date(s) on the strings that occur as publishedAt / date *)

ISO_DATE == <<"2025-01-02T03:04:05Z">>
BAD_DATE == <<"soon">>

\* shortDate / normalizeDate: YYYY-MM-DD, or undefined when missing or unparsable
shortDate(opt) ==
    IF opt = {} \/ The(opt) = <<>> THEN {}
    ELSE IF The(opt) = ISO_DATE THEN {<<"2025-01-02">>}
    ELSE {}

-----------------------------------------------------------------------------
(* Request normalisation: summarizeNews.ts *)

Styles == {"balanced", "headline-first", "key-points", "risks"}

\* a JavaScript string is truthy when it is present and not ""
Truthy(o, k) == k \in DOMAIN o /\ o[k] # <<>>

normalizeLang(lang) ==
    IF lang = {} \/ The(lang) = <<>> THEN <<"e", "n">>
    ELSE IF Len(The(lang)) = 2 THEN toLowerCase(The(lang)) ELSE <<"e", "n">>

Min(a, b) == IF a < b THEN a ELSE b
Max(a, b) == IF a > b THEN a ELSE b
clamp(n, min, max) == Max(min, Min(max, n))

RECURSIVE filterUsable(_)
filterUsable(items) ==
    IF items = <<>> THEN <<>>
    ELSE LET i == Head(items)
             rest == filterUsable(Tail(items))
         IN IF Truthy(i, "title") /\ Truthy(i, "url") /\ Truthy(i, "source")
               /\ Truthy(i, "publishedAt")
            THEN <<i>> \o rest ELSE rest

\* compactItems without the cut at the limit
compactItemsUncut(items, limit) == filterUsable(items)

\* compactItems without the filter
compactItemsUnfiltered(items, limit) == SubSeq(items, 1, Min(Len(items), limit))

\* lines 82-84
compactItems(items, limit) ==
    LET f == filterUsable(items) IN SubSeq(f, 1, Min(Len(f), limit))

\* buildPromptJson.ts lines 15-25: one numbered line per item, a line being
\* the values it is formatted from
materializeForModel(items) ==
    [i \in 1..Len(items) |->
        [n |-> i,
         title |-> OrElse(Get(items[i], "title"), <<"Untitled">>),
         src |-> OrElse(Get(items[i], "source"), <<>>),
         date |-> OrElse(shortDate(Get(items[i], "publishedAt")), <<>>),
         url |-> OrElse(Get(items[i], "url"), <<>>)]]

\* buildPromptJson.ts lines 27-100: the user message is the schema brief and
\* the rules of the style, the output language and the item lines
buildPromptJson(items, lang, style) ==
    [style |-> IF style \in {"headline-first", "key-points", "risks"} THEN style
               ELSE "balanced",
     lang |-> lang, items |-> materializeForModel(items)]

usesMaxCompletionTokens(model) ==
    LET m == toLowerCase(model)
    IN includes(m, <<"n", "a", "n", "o">>) \/ includes(m, <<"m", "i", "n", "i">>)

-----------------------------------------------------------------------------
(* Cache key: summarizeNews.ts makeSummCacheKey *)

\* crypto sha256, taken as injective: the digest stands for its preimage
sha256Hex(input) == [sha256 |-> input]

\* Array.prototype.sort with a comparator: stable, so an element goes after
\* every element already placed that does not compare greater than it
RECURSIVE insertSorted(_, _)
insertSorted(sorted, e) ==
    IF sorted = <<>> THEN <<e>>
    ELSE IF localeCompare(Head(sorted).u \o Head(sorted).t, e.u \o e.t) > 0
         THEN <<e>> \o sorted
         ELSE <<Head(sorted)>> \o insertSorted(Tail(sorted), e)

RECURSIVE sortByUrlTitle(_, _)
sortByUrlTitle(done, todo) ==
    IF todo = <<>> THEN done
    ELSE sortByUrlTitle(insertSorted(done, Head(todo)), Tail(todo))

\* makeSummCacheKey without the style in the hashed payload
makeSummCacheKeyNoStyle(v, lang, maxItems, mode, style, items) ==
    LET proj == [i \in 1..Len(items) |->
                    [t |-> OrElse(Get(items[i], "title"), <<>>),
                     u |-> OrElse(Get(items[i], "url"), <<>>)]]
        json == [v |-> v, lang |-> lang, max |-> maxItems, mode |-> mode,
                 items |-> sortByUrlTitle(<<>>, proj)]
    IN [ns |-> "summ", v |-> v, digest |-> sha256Hex(json)]

\* makeSummCacheKey without the version, in the prefix and in the payload
makeSummCacheKeyUnversioned(v, lang, maxItems, mode, style, items) ==
    LET proj == [i \in 1..Len(items) |->
                    [t |-> OrElse(Get(items[i], "title"), <<>>),
                     u |-> OrElse(Get(items[i], "url"), <<>>)]]
        json == [lang |-> lang, max |-> maxItems, mode |-> mode,
                 style |-> style, items |-> sortByUrlTitle(<<>>, proj)]
    IN [ns |-> "summ", digest |-> sha256Hex(json)]

\* lines 162-181: `summ:v${SUMM_V}:${sha256Hex(payload)}`
makeSummCacheKey(v, lang, maxItems, mode, style, items) ==
    LET proj == [i \in 1..Len(items) |->
                    [t |-> OrElse(Get(items[i], "title"), <<>>),
                     u |-> OrElse(Get(items[i], "url"), <<>>)]]
        sorted == sortByUrlTitle(<<>>, proj)
        json == [v |-> v, lang |-> lang, max |-> maxItems, mode |-> mode,
                 style |-> style, items |-> sorted]
    IN [ns |-> "summ", v |-> v, digest |-> sha256Hex(json)]

-----------------------------------------------------------------------------
(* Extractive formatter: styleAwareFallback.ts *)

clampWords(input, maxWords) ==
    LET text == OrElse(input, <<"Untitled">>)
        words == splitWords(text, <<>>, <<>>)
    IN IF Len(words) <= maxWords THEN text
       ELSE join(SubSeq(words, 1, maxWords), <<" ">>) \o <<"U+2026">>

srcSuffix(src) ==
    IF src = {} \/ The(src) = <<>> THEN <<>> ELSE <<" U+2014 ">> \o The(src)

formatHeadline(i, it) ==
    <<"[">> \o NumStr(i + 1) \o <<"] ">> \o clampWords(Get(it, "title"), 12)
      \o srcSuffix(Get(it, "source")) \o <<" U+00BB ">> \o OrElse(Get(it, "url"), <<"undefined">>)

formatKeyPoint(i, it) ==
    LET date == shortDate(Get(it, "publishedAt"))
        src  == Get(it, "source")
        parts == (IF src = {} \/ The(src) = <<>> THEN <<>> ELSE <<The(src)>>)
                   \o (IF date = {} THEN <<>> ELSE <<The(date)>>)
        meta == join(parts, <<" U+00B7 ">>)
    IN <<"[">> \o NumStr(i + 1) \o <<"] ">> \o clampWords(Get(it, "title"), 18)
         \o (IF meta = <<>> THEN <<>> ELSE <<" U+2014 ">> \o meta)
         \o <<" U+00BB ">> \o OrElse(Get(it, "url"), <<"undefined">>)

formatRisk(i, it) ==
    <<"U+26A0 U+FE0E [">> \o NumStr(i + 1) \o <<"] ">> \o clampWords(Get(it, "title"), 14)
      \o srcSuffix(Get(it, "source")) \o <<" U+00BB ">> \o OrElse(Get(it, "url"), <<"undefined">>)

formatBalanced(i, it) ==
    <<"[">> \o NumStr(i + 1) \o <<"] ">> \o clampWords(Get(it, "title"), 16)
      \o srcSuffix(Get(it, "source")) \o <<" U+00BB ">> \o OrElse(Get(it, "url"), <<"undefined">>)

\* sliceCount showing every item
sliceCountAll(style, n) == n

\* lines 68-75: how many items the text lists
sliceCount(style, n) ==
    CASE style = "risks" -> Min(n, 6)
      [] style = "headline-first" -> Min(n, 8)
      [] style = "key-points" -> Min(n, 8)
      [] OTHER -> Min(n, 10)

styleAwareFallback(items, lang, style) ==
    LET n == Len(items)
        header ==
            CASE style = "headline-first" ->
                   <<"Headlines digest (">> \o lang \o <<") U+2014 top ">> \o NumStr(n) \o <<" item(s):">>
              [] style = "key-points" ->
                   <<"Key points (">> \o lang \o <<") U+2014 facts & dates across ">> \o NumStr(n) \o <<" item(s):">>
              [] style = "risks" ->
                   <<"U+26A0 Risk scan (">> \o lang \o <<") U+2014 review of ">> \o NumStr(n) \o <<" item(s):">>
              [] OTHER ->
                   <<"Balanced summary (">> \o lang \o <<") U+2014 ">> \o NumStr(n) \o <<" item(s):">>
        picked == SubSeq(items, 1, sliceCount(style, n))
        lines == [i \in 1..Len(picked) |->
                    CASE style = "headline-first" -> formatHeadline(i - 1, picked[i])
                      [] style = "key-points" -> formatKeyPoint(i - 1, picked[i])
                      [] style = "risks" -> formatRisk(i - 1, picked[i])
                      [] OTHER -> formatBalanced(i - 1, picked[i])]
        outro ==
            CASE style = "headline-first" -> <<"U+2014 End of headlines U+2014">>
              [] style = "key-points" -> <<"U+2014 End of key points U+2014">>
              [] style = "risks" -> <<"U+2014 Risk scan complete U+2014">>
              [] OTHER -> <<"U+2014 End of summary U+2014">>
    IN header \o <<"\n", "\n">> \o join(lines, <<"\n">>) \o <<"\n", "\n">> \o outro

-----------------------------------------------------------------------------
(* Block normaliser: normalizeBlocks.ts *)

NullEntry == [null |-> TRUE]
\* a value that is not an array (a string, an object)
NotAnArray == <<[notAnArray |-> TRUE]>>
\* Array.isArray
isArray(v) == v # NotAnArray

defaultKindForStyle(style) ==
    CASE style = "headline-first" -> "headline"
      [] style = "key-points" -> "keyPoint"
      [] style = "risks" -> "risk"
      [] OTHER -> "balanced"

\* raw is a string of one atom, or undefined
normalizeKind(rawKind, fallback) ==
    LET k == toLowerCase(OrElse(rawKind, <<>>))
    IN IF k \in {<<"headline">>, <<"headline-first">>} THEN "headline"
       ELSE IF k \in {<<"keypoint">>, <<"key-points">>, <<"key_points">>} THEN "keyPoint"
       ELSE IF k \in {<<"risk">>, <<"risks">>} THEN "risk"
       ELSE IF k = <<"balanced">> THEN "balanced"
       ELSE fallback

\* b.facts.filter(x => typeof x === "string" && x.trim()).map(x => x.trim())
RECURSIVE cleanFacts(_)
cleanFacts(facts) ==
    IF facts = <<>> THEN <<>>
    ELSE IF Head(facts) # NonString /\ trim(Head(facts)) # <<>>
         THEN <<trim(Head(facts))>> \o cleanFacts(Tail(facts))
         ELSE cleanFacts(Tail(facts))

\* urlOf without the trim
urlOfUntrimmed(b) == OrElse(Get(b, "url"), <<>>)

\* line 60: (b.url ?? "").trim(), for a url that is a string or missing
urlOf(b) == trim(OrElse(Get(b, "url"), <<>>))

\* idxOf keeping whatever number the entry carries
idxOfAnyNumber(b, i) ==
    IF Get(b, "idx") # {} /\ "n" \in DOMAIN b.idx THEN b.idx.n ELSE i + 1

\* line 64: Number.isFinite(b.idx) && b.idx > 0 ? b.idx : i + 1 (i is 0-based).
\* A loose idx is [n |-> k] for the number k and [nan |-> TRUE] for a value
\* that is not a finite number (NaN, a string, null)
idxOf(b, i) ==
    IF Get(b, "idx") # {} /\ "n" \in DOMAIN b.idx /\ b.idx.n > 0 THEN b.idx.n ELSE i + 1

\* one iteration of the loop body for blocks[i] (i is 0-based):
\* [threw, out] where out is the block pushed, if any
normalizeEntry(b, i, fallbackKind) ==
    IF b = NullEntry \/ Get(b, "url") = {NonString}
    THEN [threw |-> TRUE, out |-> {}]
    ELSE
    LET url == urlOf(b) IN
    IF url = <<>> THEN [threw |-> FALSE, out |-> {}]
    ELSE IF NonString \in (Get(b, "title") \cup Get(b, "kind") \cup Get(b, "source"))
    THEN [threw |-> TRUE, out |-> {}]
    ELSE
    LET t0 == trim(OrElse(Get(b, "title"), <<"Untitled">>))
        title == IF t0 = <<>> THEN <<"Untitled">> ELSE t0
        idx == idxOf(b, i)
        kind == normalizeKind(Get(b, "kind"), fallbackKind)
        s0 == IF Get(b, "source") = {} THEN <<>> ELSE trim(b.source)
        source == IF s0 = <<>> THEN {} ELSE {s0}
        date == shortDate(Get(b, "date"))
        facts == IF Get(b, "facts") = {} THEN {} ELSE {cleanFacts(b.facts)}
    IN [threw |-> FALSE,
        out |-> {[kind |-> kind, idx |-> idx, title |-> title, url |-> url]
                   @@ Field("source", source) @@ Field("date", date)
                   @@ Field("facts", facts)}]

RECURSIVE normalizeLoop(_, _, _, _)
normalizeLoop(blocks, i, fallbackKind, out) ==
    IF i >= Len(blocks) THEN [threw |-> FALSE, value |-> IF out = <<>> THEN {} ELSE {out}]
    ELSE LET r == normalizeEntry(blocks[i + 1], i, fallbackKind)
         IN IF r.threw THEN [threw |-> TRUE, value |-> {}]
            ELSE normalizeLoop(blocks, i + 1, fallbackKind,
                               IF r.out = {} THEN out ELSE Append(out, The(r.out)))

\* blocks is undefined ({}), an array ({seq}) or a value that is not an array
\* ({NotAnArray}); the result is [threw, value] with value undefined or a
\* non-empty array of clean blocks
normalizeBlocksForCache(blocks, style) ==
    IF blocks = {} \/ ~isArray(The(blocks)) THEN [threw |-> FALSE, value |-> {}]
    ELSE normalizeLoop(The(blocks), 0, defaultKindForStyle(style), <<>>)

-----------------------------------------------------------------------------
(* JSON text *)

\* JSON.stringify(obj): the text that parses back to obj (undefined keys are
\* not part of obj and so not part of the text)
JSONstringify(obj) == [kind |-> "json", value |-> obj]
\* a text that is not a JSON document
PlainText(s) == [kind |-> "text", value |-> s]
\* JSON.parse(text): [threw, value]
JSONparse(text) ==
    IF text.kind = "json" THEN [threw |-> FALSE, value |-> {text.value}]
    ELSE [threw |-> TRUE, value |-> {}]

\* new Date(t).toISOString()
toISOString(t) == [iso |-> t]

-----------------------------------------------------------------------------
(* Inputs *)

ItemA == [title |-> <<"b", "c">>, url |-> <<"a">>, source |-> <<"Src1">>,
          publishedAt |-> ISO_DATE]
\* same title and url as ItemA, another source
ItemA2 == [title |-> <<"b", "c">>, url |-> <<"a">>, source |-> <<"Src2">>,
           publishedAt |-> ISO_DATE]
\* url + title is "abc", as for ItemA
ItemB == [title |-> <<"c">>, url |-> <<"a", "b">>, source |-> <<"Src2">>,
          publishedAt |-> BAD_DATE]
ItemC == [title |-> <<"x", " ", "x">>, url |-> <<"c">>, source |-> <<"Src1">>,
          publishedAt |-> ISO_DATE]
\* not usable: the url is empty, no source or publishedAt
ItemU == [title |-> <<"x">>, url |-> <<>>]

\* more usable items than the risks formatter lists
Items7 == [i \in 1..7 |-> ItemC]
ModeInputs == { {"fast"}, {"quality"} }

\* request bodies: <<lang, maxItems, summaryStyle, items, modes>>, each of the
\* first four optional, modes the values of mode the body is sent with
BodyVariations ==
    { <<{}, {}, {}, {<<ItemA, ItemB, ItemC>>}, ModeInputs>>,
      <<{}, {}, {}, {<<ItemA2, ItemB, ItemC>>}, ModeInputs>>,
      <<{<<"D", "E">>}, {0}, {"key-points"}, {<<ItemU, ItemC, ItemA>>}, ModeInputs>>,
      <<{}, {}, {"risks"}, {Items7}, {{}}>>,
      <<{}, {}, {"bogus"}, {<<ItemU>>}, {{"fast"}}>>,
      <<{}, {}, {}, {<<>>}, {{"quality"}}>>,
      <<{}, {}, {}, {NotAnArray}, {{"fast"}}>>,
      <<{}, {}, {}, {}, {{"quality"}}>> }

Bodies ==
    UNION { { Field("lang", v[1]) @@ Field("maxItems", v[2]) @@ Field("summaryStyle", v[3])
                @@ Field("items", v[4]) @@ Field("mode", m) : m \in v[5] }
            : v \in BodyVariations }

\* what the body variable holds when JSON.parse(event.body) threw
Unparsed == [unparsed |-> TRUE]

\* event.body: undefined, a JSON document, or a text that is not JSON
EventBodies ==
    { {JSONstringify(b)} : b \in Bodies } \cup { {PlainText(<<"{">>)}, {} }

ModelNames == { <<"g", "p", "t", "-", "5", "-", "M", "i", "n", "i">>,
                <<"g", "p", "t", "-", "4", "o">> }

\* blocks as the model may return them
BlockGood   == [kind |-> <<"KeyPoint">>, idx |-> [n |-> 4], title |-> <<"t">>,
                url |-> <<" ", "a", " ">>, source |-> <<"Src1">>, date |-> ISO_DATE]
BlockBare   == [url |-> <<"b">>]
BlockBlank  == [title |-> <<"t">>, url |-> <<" ">>]
BlockNoUrl  == [title |-> NonString]
BlockNumUrl == [title |-> <<"t">>, url |-> NonString]
BlockMessy  == [url |-> <<"a", " ", "b">>, title |-> <<" ">>, idx |-> [n |-> 0],
                kind |-> <<"RISKS">>, source |-> <<" ">>, date |-> BAD_DATE,
                facts |-> << <<" ", "f">>, <<" ">>, NonString >>]
\* an idx that is not a finite number
BlockNaN    == [url |-> <<"n">>, idx |-> [nan |-> TRUE]]

\* SummaryJson documents as the model may return them
ModelDocs ==
    { [header |-> <<"H">>],
      [header |-> <<"H">>, blocks |-> <<>>],
      [header |-> <<"H">>, intro |-> <<"I">>, blocks |-> <<BlockGood, BlockBare, BlockMessy, BlockNaN>>],
      [header |-> <<"H">>, blocks |-> <<BlockBlank, BlockBare>>],
      [header |-> <<"H">>, outro |-> <<"O">>, blocks |-> <<BlockBlank, BlockNoUrl>>],
      [header |-> <<"H">>, blocks |-> <<BlockBare, BlockNumUrl>>],
      [header |-> <<"H">>, blocks |-> <<BlockBare, NullEntry>>] }

\* outcomes of one callOnce: a trimmed non-empty content, or the Error thrown
CallOutcomes ==
    { [threw |-> FALSE, content |-> JSONstringify(d)] : d \in ModelDocs }
    \cup { [threw |-> FALSE, content |-> PlainText(<<"Sorry">>)] }
    \cup { [threw |-> TRUE, message |-> <<"OpenAI HTTP ", "400", ": ">> \o t]
           : t \in { <<>>, <<"unsupported_parameter">> } }
    \cup { [threw |-> TRUE, message |-> <<"OpenAI returned empty content">>],
           [threw |-> TRUE, message |-> <<"This operation was aborted">>] }

\* /unsupported_parameter|max_tokens|max_completion_tokens/i.test(msg)
mentionsTokenParam(msg) ==
    \E i \in 1..Len(msg) :
        lowerAtom(msg[i]) \in {"unsupported_parameter", "max_tokens", "max_completion_tokens"}

-----------------------------------------------------------------------------
(* summarizeImpl: the values derived from the request body *)

Lang == normalizeLang(Get(body, "lang"))
MaxItems == clamp(OrElse(Get(body, "maxItems"), DEFAULT_MAX_ITEMS), 1, MAX_ITEMS_CAP)
Mode == IF Get(body, "mode") = {"quality"} THEN "quality" ELSE "fast"
Style == IF OrElse(Get(body, "summaryStyle"), "balanced") \in Styles
         THEN OrElse(Get(body, "summaryStyle"), "balanced") ELSE "balanced"
Incoming == IF Get(body, "items") # {} /\ isArray(body.items) THEN body.items ELSE <<>>
UsableItems == compactItems(Incoming, MaxItems)
CacheKey == makeSummCacheKey(SUMM_V, Lang, MaxItems, Mode, Style, UsableItems)
\* CacheOn without the debug flag
CacheOnIgnoringFlag == upstash
\* lines 240 and 336: upstash && !DISABLE_CACHE
CacheOn == upstash /\ ~DISABLE_CACHE

\* p.summaryText is a string with trim().length > 0
hasText(o) == "summaryText" \in DOMAIN o /\ trim(o.summaryText) # <<>>
\* p.blocks is an array with length > 0
hasBlocksArray(o) == "blocks" \in DOMAIN o /\ Len(o.blocks) > 0
\* hasContent counting blocks only
hasContentBlocksOnly(o) == hasBlocksArray(o)
\* lines 337-339
hasContent(o) == hasText(o) \/ hasBlocksArray(o)

-----------------------------------------------------------------------------
(* summarizeImpl: lines 261-333, from the model result to the payload *)

\* lines 278-286: parsed.blocks.map(...); a null entry makes b.kind throw
mapThrows(blocks) == \E i \in 1..Len(blocks) : blocks[i] = NullEntry
mapBlocks(blocks) ==
    [i \in 1..Len(blocks) |->
        LET b == blocks[i]
        IN [k \in DOMAIN b \cap {"kind", "title", "url", "source", "date", "facts"} |-> b[k]]
             @@ ("idx" :> OrElse(Get(b, "idx"), [n |-> i]))]

\* lines 268-301: [summaryText, blocks, header, intro, outro], each optional.
\* rawOpt is what callOpenAI returned, {} when it threw
summarizeCompute(mode, rawOpt, items, lang, style) ==
    LET fallback == [summaryText |-> {styleAwareFallback(items, lang, style)},
                     blocks |-> {}, header |-> {}, intro |-> {}, outro |-> {}]
    IN IF mode # "quality" THEN fallback
       ELSE IF rawOpt = {} THEN fallback
       ELSE LET parsed == JSONparse(The(rawOpt))
            IN IF parsed.threw THEN fallback
               ELSE LET doc == The(parsed.value)
                    IN IF Get(doc, "blocks") = {} \/ Len(doc.blocks) = 0 THEN fallback
                       ELSE IF mapThrows(doc.blocks) THEN fallback
                       ELSE [summaryText |-> {},
                             blocks |-> {mapBlocks(doc.blocks)},
                             header |-> Get(doc, "header"),
                             intro |-> Get(doc, "intro"),
                             outro |-> Get(doc, "outro")]

PLACEHOLDER == <<"No valid articles to summarize for the selected query.">>

\* ensureText adding the formatter's text to every payload without one
ensureTextAlways(summaryText, safeBlocks, items, lang, style) ==
    IF summaryText # {} THEN summaryText ELSE {styleAwareFallback(items, lang, style)}

\* ensureText without the guarantee: the text is left as computed
ensureTextAsIs(summaryText, safeBlocks, items, lang, style) == summaryText

\* lines 305-320: the summaryText of the payload
ensureText(summaryText, safeBlocks, items, lang, style) ==
    IF safeBlocks # {} /\ Len(The(safeBlocks)) > 0 THEN summaryText
    ELSE IF summaryText # {} /\ trim(The(summaryText)) # <<>> THEN summaryText
    ELSE LET t == styleAwareFallback(items, lang, style)
         IN IF trim(t) = <<>> THEN {PLACEHOLDER} ELSE {t}

\* lines 303-333: [threw, payload]
assemblePayload(mode, rawOpt, items, lang, style, t) ==
    LET c == summarizeCompute(mode, rawOpt, items, lang, style)
        safe == normalizeBlocksForCache(c.blocks, style)
    IN IF safe.threw THEN [threw |-> TRUE, payload |-> {}]
       ELSE [threw |-> FALSE,
             payload |-> {[mode |-> mode, style |-> style, count |-> Len(items),
                           at |-> toISOString(t)]
                          @@ Field("summaryText",
                                   ensureText(c.summaryText, safe.value, items, lang, style))
                          @@ Field("header", c.header) @@ Field("intro", c.intro)
                          @@ Field("outro", c.outro) @@ Field("blocks", safe.value)}]

\* cacheValue serialising the payload without its summaryText
cacheValueWithoutText(p) ==
    JSONstringify([k \in DOMAIN p \ {"summaryText"} |-> p[k]])

\* line 341: the value handed to setex
cacheValue(p) == JSONstringify(p)

\* the responses
Response(status, b) == [statusCode |-> status, body |-> b]
\* ServerError answering with the status of a bad gateway
ServerErrorAs502(msg) == Response(502, [ok |-> FALSE, error |-> msg])
\* okResponse with the cached flag always set
okResponseAlwaysCached(p, cached) == Response(200, p @@ [ok |-> TRUE, cached |-> TRUE])

\* lines 251-255 and 345-349: { ok: true, cached, ...p }
okResponse(p, cached) == Response(200, p @@ [ok |-> TRUE, cached |-> cached])
BadRequest(error) == Response(400, [ok |-> FALSE, error |-> error])
ServerError(msg) == Response(500, [ok |-> FALSE, error |-> msg])

-----------------------------------------------------------------------------
(* The state machine *)

Init ==
    /\ store = <<>>
    /\ now = 0
    /\ upstash \in BOOLEAN
    /\ DISABLE_CACHE \in BOOLEAN
    /\ modelName \in ModelNames
    /\ pc = "idle"
    /\ body = <<>>
    /\ cacheGot = {}
    /\ modelCalls = <<>>
    /\ raw = {}
    /\ payload = {}
    /\ written = {}
    /\ faults = {}
    /\ resp = {}
    /\ nreq = 0
    /\ args = <<>>
    /\ result = {}
    /\ batch = <<>>
    /\ checks = <<>> /\ page = <<>>

\* afterMiss calling the model in every mode
afterMissCallsModel(mode) == "call1"

\* line 268: where a request that has to compute its summary goes
afterMiss(mode) == IF mode = "quality" THEN "call1" ELSE "assemble"

\* retryConvention repeating the convention of the first call
retryConventionSame(preferCompletion) == preferCompletion

\* line 151: the convention of the retry
retryConvention(preferCompletion) == ~preferCompletion

\* lines 183-236: a request arrives; parse, normalise, validate
Receive(eventBody) ==
    /\ pc \in {"idle", "done"}
    /\ nreq < MaxRequests
    /\ nreq' = nreq + 1
    /\ cacheGot' = {} /\ modelCalls' = <<>> /\ raw' = {} /\ payload' = {}
    /\ written' = {} /\ faults' = {}
    /\ LET parsed == IF eventBody = {} THEN [threw |-> FALSE, value |-> {<<>>}]
                     ELSE JSONparse(The(eventBody))
       IN IF parsed.threw
          THEN /\ body' = Unparsed
               /\ resp' = {ServerError("Unexpected token")}
               /\ pc' = "done"
          ELSE
          LET b == The(parsed.value)
              incoming == IF Get(b, "items") # {} /\ isArray(b.items) THEN b.items ELSE <<>>
              maxItems == clamp(OrElse(Get(b, "maxItems"), DEFAULT_MAX_ITEMS), 1, MAX_ITEMS_CAP)
          IN /\ body' = b
             /\ IF Len(incoming) = 0
                THEN /\ resp' = {BadRequest("No items provided")}
                     /\ pc' = "done"
                ELSE IF Len(compactItems(incoming, maxItems)) = 0
                THEN /\ resp' = {BadRequest("No usable items after normalization")}
                     /\ pc' = "done"
                ELSE /\ resp' = {}
                     /\ pc' = IF CacheOn THEN "cacheRead"
                              ELSE afterMiss(IF Get(b, "mode") = {"quality"} THEN "quality" ELSE "fast")
    /\ UNCHANGED <<store, now, upstash, DISABLE_CACHE, modelName, args, result, batch, checks, page>>

\* storeGet never finding an entry
storeGetNull(key) == {}

\* UpstashClient.get: the live entry under the key, or null
storeGet(key) ==
    IF key \in DOMAIN store /\ now < store[key].expiresAt THEN {store[key].value} ELSE {}

\* an entry without content (summaryText blank, no blocks), as another
\* writer may have left it under the key
StaleEntry ==
    JSONstringify([mode |-> "fast", style |-> "balanced", count |-> 1,
                   summaryText |-> <<" ">>, at |-> toISOString(0)])

\* lines 240-259: the cache read.
\*   ok         the store answers with the entry, or with null
\*   http-error fetch fails or the status is not ok: get throws
\*   bad-body   the answer is not JSON: get returns null
\*   not-json   the entry is a string that is not a JSON document
\*   stale      the key holds an entry without content that no request of
\*              this behaviour wrote
CacheRead(outcome) ==
    /\ pc = "cacheRead"
    /\ outcome = "stale" => storeGet(CacheKey) = {}
    /\ LET cached == CASE outcome = "ok" -> storeGet(CacheKey)
                       [] outcome = "not-json" -> {PlainText(<<"<html>">>)}
                       [] outcome = "stale" -> {StaleEntry}
                       [] OTHER -> {}
           parsed == IF cached = {} THEN [threw |-> FALSE, value |-> {}]
                     ELSE JSONparse(The(cached))
           p == IF parsed.value = {} THEN <<>>
                ELSE ("blocks" :> OrElse(Get(The(parsed.value), "blocks"), <<>>))
                       @@ The(parsed.value)
       IN /\ cacheGot' = cached
          /\ faults' = IF outcome \in {"ok", "stale"} THEN faults
                       ELSE faults \cup {outcome}
          /\ IF outcome = "http-error"
             THEN /\ resp' = {ServerError("Upstash error")}
                  /\ pc' = "done"
             ELSE IF parsed.threw
             THEN /\ resp' = {ServerError("Unexpected token")}
                  /\ pc' = "done"
             ELSE IF cached # {} /\ (hasText(p) \/ hasBlocksArray(p))
             THEN /\ resp' = {okResponse(p, TRUE)}
                  /\ pc' = "done"
             ELSE /\ resp' = {}
                  /\ pc' = afterMiss(Mode)
    /\ UNCHANGED <<store, now, upstash, DISABLE_CACHE, modelName, body, modelCalls,
                   raw, payload, written, nreq, args, result, batch, checks, page>>

\* lines 270-271 and 144-146: the prompt is built from the filtered items;
\* the first callOnce, with the convention the model name selects
FirstCall(outcome) ==
    /\ pc = "call1"
    /\ modelCalls' = <<[useCompletionTokens |-> usesMaxCompletionTokens(modelName),
                        prompt |-> buildPromptJson(UsableItems, Lang, Style),
                        timeoutMs |-> FIRST_TIMEOUT_MS, threw |-> outcome.threw,
                        paramError |-> outcome.threw /\ mentionsTokenParam(outcome.message)]>>
    /\ IF ~outcome.threw
       THEN raw' = {outcome.content} /\ pc' = "assemble"
       ELSE IF mentionsTokenParam(outcome.message)
       THEN raw' = {} /\ pc' = "call2"
       ELSE raw' = {} /\ pc' = "assemble"
    /\ UNCHANGED <<store, now, upstash, DISABLE_CACHE, modelName, body, cacheGot,
                   payload, written, faults, resp, nreq, args, result, batch, checks, page>>

\* lines 149-155: the retry with the other convention
RetryCall(outcome) ==
    /\ pc = "call2"
    /\ modelCalls' = Append(modelCalls,
                            [useCompletionTokens |-> retryConvention(usesMaxCompletionTokens(modelName)),
                             prompt |-> buildPromptJson(UsableItems, Lang, Style),
                             timeoutMs |-> RETRY_TIMEOUT_MS, threw |-> outcome.threw,
                             paramError |-> outcome.threw /\ mentionsTokenParam(outcome.message)])
    /\ raw' = IF outcome.threw THEN {} ELSE {outcome.content}
    /\ pc' = "assemble"
    /\ UNCHANGED <<store, now, upstash, DISABLE_CACHE, modelName, body, cacheGot,
                   payload, written, faults, resp, nreq, args, result, batch, checks, page>>

\* lines 261-340 and, without a cache write, 345-349
Assemble ==
    /\ pc = "assemble"
    /\ LET r == assemblePayload(Mode, raw, UsableItems, Lang, Style, now)
       IN IF r.threw
          THEN /\ payload' = {}
               /\ resp' = {ServerError("TypeError")}
               /\ pc' = "done"
          ELSE /\ payload' = r.payload
               /\ IF CacheOn /\ hasContent(The(r.payload))
                  THEN resp' = {} /\ pc' = "cacheWrite"
                  ELSE /\ resp' = {okResponse(The(r.payload), FALSE)}
                       /\ pc' = "done"
    /\ UNCHANGED <<store, now, upstash, DISABLE_CACHE, modelName, body, cacheGot,
                   modelCalls, raw, written, faults, nreq, args, result, batch, checks, page>>

\* lines 341-349: setex, then the response; a setex that throws reaches the
\* catch of line 350
CacheWrite(ok) ==
    /\ pc = "cacheWrite"
    /\ LET value == cacheValue(The(payload))
       IN /\ written' = written \cup {value}
          /\ IF ok
             THEN /\ store' = (CacheKey :> [value |-> value, expiresAt |-> now + TTL_SECONDS])
                                 @@ store
                  /\ faults' = faults
                  /\ resp' = {okResponse(The(payload), FALSE)}
             ELSE /\ store' = store
                  /\ faults' = faults \cup {"setex-error"}
                  /\ resp' = {ServerError("Upstash error")}
    /\ pc' = "done"
    /\ UNCHANGED <<now, upstash, DISABLE_CACHE, modelName, body, cacheGot,
                   modelCalls, raw, payload, nreq, args, result, batch, checks, page>>

\* time passes between two requests; the store drops the entries whose
\* time to live is over
Tick ==
    /\ pc \in {"idle", "done"}
    /\ now < MaxTicks * TickSeconds
    /\ now' = now + TickSeconds
    /\ store' = [k \in {k \in DOMAIN store : now' < store[k].expiresAt} |-> store[k]]
    /\ UNCHANGED <<upstash, DISABLE_CACHE, modelName, pc, body, cacheGot,
                   modelCalls, raw, payload, written, faults, resp, nreq, args, result, batch, checks, page>>

Next ==
    \/ \E eb \in EventBodies : Receive(eb)
    \/ \E o \in {"ok", "http-error", "bad-body", "not-json", "stale"} : CacheRead(o)
    \/ \E o \in CallOutcomes : FirstCall(o)
    \/ \E o \in CallOutcomes : RetryCall(o)
    \/ Assemble
    \/ \E ok \in BOOLEAN : CacheWrite(ok)
    \/ Tick

Spec == Init /\ [][Next]_vars

\* Progress of a request.  callOnce arms a timer that aborts its fetch
\* (lines 99-100), so a model call always ends, with an answer or with the
\* abort; the steps between awaits are plain computation.  UpstashClient.call
\* (lines 22-32) passes no signal to fetch and arms no timer: a get or setex
\* ends only if the store answers, and nothing in the code makes it answer.
\* the step that ends the computation between the model call and the cache write
AssembleEnds ==
    pc = "assemble" /\ pc' \in {"cacheWrite", "done"}

SpecLive ==
    /\ Spec
    /\ WF_vars(\E o \in CallOutcomes : FirstCall(o))
    /\ WF_vars(\E o \in CallOutcomes : RetryCall(o))
    /\ WF_pc(AssembleEnds)

-----------------------------------------------------------------------------
(* The functions on their own: each behaviour draws the arguments and     *)
(* makes one call.                                                        *)

Seqs(S, n) == UNION { [1..k -> S] : k \in 0..n }

AtRest ==
    /\ store = <<>> /\ now = 0 /\ upstash = FALSE /\ DISABLE_CACHE = FALSE
    /\ modelName \in ModelNames /\ pc = "idle" /\ body = <<>> /\ cacheGot = {}
    /\ modelCalls = <<>> /\ raw = {} /\ payload = {} /\ written = {}
    /\ faults = {} /\ resp = {} /\ nreq = 0

handlerVars == <<store, now, upstash, DISABLE_CACHE, modelName, pc, body, cacheGot,
                 modelCalls, raw, payload, written, faults, resp, nreq>>

\* candidate entries of a model's blocks array; [primitive |-> TRUE] is an
\* entry that is not an object (a number, a string): it has no fields
BlockPool == { BlockGood, BlockBare, BlockBlank, BlockNoUrl, BlockNumUrl, NullEntry,
               [url |-> <<>>], [url |-> <<"b">>, source |-> NonString],
               BlockMessy, BlockNaN, [primitive |-> TRUE] }

NormArgs ==
    { [fn |-> "normalizeBlocksForCache", blocks |-> b, style |-> st]
      : b \in {{}, {NotAnArray}} \cup { {q} : q \in Seqs(BlockPool, MaxBlocks) },
        st \in Styles }

NormInit == AtRest /\ args \in NormArgs /\ result = {} /\ batch = <<>> /\ checks = <<>> /\ page = <<>>

NormCall ==
    /\ result = {}
    /\ result' = {normalizeBlocksForCache(args.blocks, args.style)}
    /\ UNCHANGED <<handlerVars, args, batch, checks, page>>

SpecNorm == NormInit /\ [][NormCall]_vars

KeyItemPool == { ItemA, ItemA2, ItemB, ItemC }

KeyArgs ==
    { [fn |-> "makeSummCacheKey", lang |-> l, maxItems |-> m, mode |-> mo,
       style |-> st, items |-> its]
      : l \in { <<"e", "n">>, <<"d", "e">> }, m \in {1, DEFAULT_MAX_ITEMS},
        mo \in {"fast", "quality"}, st \in {"balanced", "risks"},
        its \in Seqs(KeyItemPool, MaxKeyItems) }

KeyInit == AtRest /\ args \in KeyArgs /\ result = {} /\ batch = <<>> /\ checks = <<>> /\ page = <<>>

KeyCall ==
    /\ result = {}
    /\ result' = {makeSummCacheKey(SUMM_V, args.lang, args.maxItems, args.mode,
                                   args.style, args.items)}
    /\ UNCHANGED <<handlerVars, args, batch, checks, page>>

SpecKey == KeyInit /\ [][KeyCall]_vars

\* NewsItem values: title and url, source and publishedAt optional
FmtItemPool == << ItemA, ItemB, [title |-> <<"t">>, url |-> <<"u">>], ItemC >>

\* the item lists: n items taken round the pool, starting at its k-th
FmtArgs ==
    { [fn |-> "styleAwareFallback",
       items |-> [i \in 1..n |-> FmtItemPool[((i + k) % Len(FmtItemPool)) + 1]],
       lang |-> l, style |-> st]
      : n \in 0..MaxFmtItems, k \in 0..1, l \in { <<"e", "n">>, <<"d", "e">> },
        st \in Styles }

FmtInit == AtRest /\ args \in FmtArgs /\ result = {} /\ batch = <<>> /\ checks = <<>> /\ page = <<>>

\* the function is called, and called again, with the same arguments
FmtCall ==
    /\ Cardinality(result) < 2
    /\ result' = result \cup {[call |-> Cardinality(result) + 1,
                                text |-> styleAwareFallback(args.items, args.lang, args.style)]}
    /\ UNCHANGED <<handlerVars, args, batch, checks, page>>

SpecFmt == FmtInit /\ [][FmtCall]_vars

-----------------------------------------------------------------------------
(* searchNews.ts: the rate limit of the search handler.  The counters live  *)
(* in the store under rl:<ip>; args holds the environment of the handler    *)
(* and body the request (its q and the client address).                     *)

\* corsHeaders(origin): the header names of every response of searchNews
corsHeaders == {"Access-Control-Allow-Origin", "Access-Control-Allow-Methods",
                "Access-Control-Allow-Headers", "Vary"}

\* a response of searchNews
SearchResponse(status, b) == [statusCode |-> status, headers |-> corsHeaders, body |-> b]

\* getClientIp: the first x-forwarded-for entry, the source address, or 0.0.0.0
ClientIps == { <<"1.1.1.1">>, <<"0.0.0.0">> }

\* line 136
rateKey(ip) == [ns |-> "rl", ip |-> ip]

incrStale(key) == IF key \in DOMAIN store THEN store[key].value ELSE 1

\* INCR: the counter after the increment
incr(key) == IF key \in DOMAIN store THEN store[key].value + 1 ELSE 1

\* RATE_LIMIT_MAX is not set, 1 or 2; NEWS_PROVIDER is not set, newsapi or
\* auto; keys holds the providers whose API key is set
SearchEnv ==
    { [fn |-> "searchNews", max |-> OrElse(m, RATE_LIMIT_MAX_DEFAULT),
       windowSec |-> RATE_LIMIT_WINDOW_DEFAULT,
       NEWS_PROVIDER |-> pk[1], keys |-> pk[2]]
      : m \in { {}, {1}, {2} },
        pk \in { <<{}, {"gnews", "newsapi"}>>, <<{}, {"gnews"}>>,
                 <<{<<"N", "e", "w", "s", "a", "p", "i">>}, {"gnews", "newsapi"}>>,
                 <<{<<"a", "u", "t", "o">>}, {"newsapi"}>> } }

SearchInit ==
    /\ store = <<>> /\ now = 0 /\ upstash \in BOOLEAN /\ DISABLE_CACHE = FALSE
    /\ modelName = <<"g", "p", "t", "-", "4", "o">> /\ pc = "idle" /\ body = <<>> /\ cacheGot = {}
    /\ modelCalls = <<>> /\ raw = {} /\ payload = {} /\ written = {}
    /\ faults = {} /\ resp = {} /\ nreq = 0
    /\ args \in SearchEnv /\ result = {} /\ batch = <<>> /\ checks = <<>> /\ page = <<>>

\* line 315: env("NEWS_PROVIDER", "gnews").toLowerCase()
providerPref(e) == toLowerCase(OrElse(e.NEWS_PROVIDER, <<"g", "n", "e", "w", "s">>))

\* line 316; lang and maxItems are the defaults of a body that has only q
searchCacheKey(q, e) ==
    [ns |-> "search",
     sha256 |-> join(<<trim(q), <<"e", "n">>, NumStr(10), providerPref(e)>>, <<"|">>)]

pickProviderBoth(e, firstOk, secondOk) ==
    [calls |-> <<[call |-> "gnews", ok |-> FALSE], [call |-> "newsapi", ok |-> secondOk]>>,
     ok |-> secondOk, provider |-> "newsapi"]

\* lines 243-274: the calls pickProvider makes and what it returns.  A
\* provider call fails when its API key is missing (env throws) or when the
\* request does (firstOk, secondOk)
pickProvider(e, firstOk, secondOk) ==
    LET mode == providerPref(e)
        target == IF mode = <<"n", "e", "w", "s", "a", "p", "i">> THEN "newsapi" ELSE "gnews"
        other == IF target = "gnews" THEN "newsapi" ELSE "gnews"
        first == target \in e.keys /\ firstOk
    IN IF first
       THEN [calls |-> <<[call |-> target, ok |-> TRUE]>>, ok |-> TRUE, provider |-> target]
       ELSE IF other \in e.keys
       THEN [calls |-> <<[call |-> target, ok |-> FALSE], [call |-> other, ok |-> secondOk]>>,
             ok |-> secondOk, provider |-> other]
       ELSE [calls |-> <<[call |-> target, ok |-> FALSE]>>, ok |-> FALSE, provider |-> target]

\* lines 278-405: one search request.  modelCalls lists the calls the
\* request made to the store and to the providers, in order.
\*   fault              the store call that fails if the request makes it
\*                      (a failed call ends the request), or "none"
\*   firstOk, secondOk  the requests to the providers succeed
SearchRequest(q, ip, fault, firstOk, secondOk) ==
    /\ nreq < MaxSearches
    /\ nreq' = nreq + 1
    /\ body' = [q |-> q, ip |-> ip]
    /\ LET incrOk == fault # "INCR"
           expireOk == fault # "EXPIRE"
           getOk == fault # "GET"
           setexOk == fault # "SETEX"
           key == rateKey(ip)
           count == incr(key)
           counted == IF key \in DOMAIN store
                      THEN [store EXCEPT ![key].value = count]
                      ELSE (key :> [value |-> count, expiresAt |-> -1]) @@ store
           expiring == [counted EXCEPT ![key].expiresAt = now + args.windowSec]
           limited == IF count = 1 THEN expiring ELSE counted
           limitCalls == IF ~upstash THEN <<>>
                         ELSE IF count = 1
                         THEN <<[call |-> "INCR", ok |-> TRUE], [call |-> "EXPIRE", ok |-> TRUE]>>
                         ELSE <<[call |-> "INCR", ok |-> TRUE]>>
           base == IF upstash THEN limited ELSE store
           cacheKey == searchCacheKey(q, args)
           picked == pickProvider(args, firstOk, secondOk)
           Failed(message) == SearchResponse(502, [ok |-> FALSE, error |-> message, tookMs |-> 0])
       IN IF Len(trim(q)) < 2
          THEN /\ resp' = {SearchResponse(400, [ok |-> FALSE, error |-> "Invalid 'q'"])}
               /\ store' = store
               /\ faults' = {}
               /\ modelCalls' = <<>>
          ELSE IF upstash /\ ~incrOk
          THEN /\ store' = store
               /\ faults' = {"incr-error"}
               /\ modelCalls' = <<[call |-> "INCR", ok |-> FALSE]>>
               /\ resp' = {Failed("Upstash error")}
          ELSE IF upstash /\ count = 1 /\ ~expireOk
          THEN /\ store' = counted
               /\ faults' = {"expire-error"}
               /\ modelCalls' = <<[call |-> "INCR", ok |-> TRUE], [call |-> "EXPIRE", ok |-> FALSE]>>
               /\ resp' = {Failed("Upstash error")}
          ELSE IF upstash /\ count > args.max
          THEN /\ store' = limited
               /\ faults' = {}
               /\ modelCalls' = limitCalls
               /\ resp' = {SearchResponse(429, [ok |-> FALSE,
                              error |-> "Too many requests. Please try again later.",
                              tookMs |-> 0])}
          ELSE IF upstash /\ ~getOk
          THEN /\ store' = limited
               /\ faults' = {"get-error"}
               /\ modelCalls' = Append(limitCalls, [call |-> "GET", ok |-> FALSE])
               /\ resp' = {Failed("Upstash error")}
          ELSE IF upstash /\ cacheKey \in DOMAIN store
          THEN /\ store' = limited
               /\ faults' = {}
               /\ modelCalls' = Append(limitCalls, [call |-> "GET", ok |-> TRUE])
               /\ resp' = {SearchResponse(200, [ok |-> TRUE, cached |-> TRUE, tookMs |-> 0,
                                                provider |-> store[cacheKey].value.provider])}
          ELSE LET got == IF upstash THEN Append(limitCalls, [call |-> "GET", ok |-> TRUE])
                          ELSE <<>>
               IN IF ~picked.ok
                  THEN /\ store' = base
                       /\ faults' = {"provider-error"}
                       /\ modelCalls' = got \o picked.calls
                       /\ resp' = {Failed("provider")}
                  ELSE IF upstash /\ ~setexOk
                  THEN /\ store' = base
                       /\ faults' = {"setex-error"}
                       /\ modelCalls' = got \o picked.calls \o <<[call |-> "SETEX", ok |-> FALSE]>>
                       /\ resp' = {Failed("Upstash error")}
                  ELSE /\ store' = IF upstash
                                   THEN (cacheKey :> [value |-> [provider |-> picked.provider],
                                                      expiresAt |-> now + SEARCH_TTL_SECONDS])
                                        @@ base
                                   ELSE store
                       /\ faults' = {}
                       /\ modelCalls' = got \o picked.calls \o
                                        (IF upstash THEN <<[call |-> "SETEX", ok |-> TRUE]>> ELSE <<>>)
                       /\ resp' = {SearchResponse(200, [ok |-> TRUE, cached |-> FALSE, tookMs |-> 0,
                                                        provider |-> picked.provider])}
    /\ UNCHANGED <<now, upstash, DISABLE_CACHE, modelName, pc, cacheGot,
                   raw, payload, written, args, result, batch, checks, page>>

\* time passes; the store drops the counters whose window is over (a counter
\* whose EXPIRE failed has no time to live and stays)
SearchTick ==
    /\ now < MaxTicks * TickSeconds
    /\ now' = now + TickSeconds
    /\ store' = [k \in {k \in DOMAIN store :
                          store[k].expiresAt = -1 \/ now' < store[k].expiresAt} |-> store[k]]
    /\ UNCHANGED <<upstash, DISABLE_CACHE, modelName, pc, body, cacheGot,
                   modelCalls, raw, payload, written, faults, resp, nreq, args, result, batch, checks, page>>

SearchNext ==
    \/ \E q \in { <<"A", "I">>, <<"A">> }, ip \in ClientIps,
          fault \in {"none", "INCR", "EXPIRE", "GET", "SETEX"},
          firstOk \in BOOLEAN, secondOk \in BOOLEAN :
          SearchRequest(q, ip, fault, firstOk, secondOk)
    \/ SearchTick

SpecSearch == SearchInit /\ [][SearchNext]_vars

-----------------------------------------------------------------------------
(* core/summarize.ts: summarizeBatch.  JavaScript runs one continuation at  *)
(* a time, so the code between two awaits is one step: the start of the     *)
(* pool up to the first await of every worker, and the continuation of one  *)
(* worker after its summarizeOne call ended.                                *)

\* articles[i], 0-based
articleAt(articles, i) == articles[i + 1]

\* the articles of a batch: n distinct articles
BatchArticles(n) == [i \in 1..n |-> [title |-> <<"T">> \o NumStr(i), url |-> <<"u">> \o NumStr(i)]]

\* opts.concurrency is undefined when not given
BatchArgs ==
    { [fn |-> "summarizeBatch", articles |-> BatchArticles(n), concurrency |-> c]
      : n \in 0..MaxArticles, c \in { {}, {0}, {1}, {2}, {9} } }

\* lines 63-69: what summarizeOne resolves to
summarizeOne(article, reply) ==
    \* safeParseJson on the reply of the model: the summary, '' when the reply
    \* is not JSON or has no summary
    article @@ [summary |-> IF reply = "json" THEN <<"S">> ELSE <<>>, sentiment |-> "neutral", entities |-> <<>>]

\* poolSize starting one worker per article
poolSizeUncapped(concurrency, n) == n

\* lines 83 and 99: the number of workers started
poolSize(concurrency, n) ==
    Min(Max(1, Min(OrElse(concurrency, BATCH_CONCURRENCY_DEFAULT), BATCH_CONCURRENCY_CAP)), n)

\* slotFor appending to the results in the order of completion
slotForPush(current, results) == Cardinality(DOMAIN results)

\* line 94: results[current] = out
slotFor(current, results) == current

\* claim taking the index before the shared one
claimStale(index) == [current |-> index - 1, index |-> index + 1]

\* line 91: const current = index++
claim(index) == [current |-> index, index |-> index + 1]

BatchInit ==
    /\ AtRest /\ args \in BatchArgs /\ result = {} /\ batch = <<>> /\ checks = <<>> /\ page = <<>>

\* lines 81-101: the pool starts; every worker takes an index and calls
\* summarizeOne before the first await returns control.  calls lists the
\* summarizeOne calls made so far: the worker and the index it passed
BatchStart ==
    /\ batch = <<>>
    /\ LET p == poolSize(args.concurrency, Len(args.articles))
       IN batch' = [index |-> p,
                    results |-> <<>>,
                    workers |-> [w \in 1..p |-> [state |-> "await", current |-> w - 1]],
                    calls |-> [w \in 1..p |-> [worker |-> w, current |-> w - 1]],
                    status |-> "running"]
    /\ UNCHANGED <<handlerVars, args, result, checks, page>>

\* lines 90-95: the summarizeOne call of worker w ends.  Resolved (reply is
\* json or text): the result is stored and the worker takes the next index
\* or ends.  Rejected: the worker's promise rejects, and so does
\* Promise.all, while the other workers go on.
BatchComplete(w, reply) ==
    /\ batch # <<>>
    /\ w \in 1..Len(batch.workers)
    /\ batch.workers[w].state = "await"
    /\ IF reply = "reject"
       THEN batch' = [batch EXCEPT !.workers[w].state = "failed",
                                   !.status = IF @ = "running" THEN "rejected" ELSE @]
       ELSE LET current == batch.workers[w].current
                out == summarizeOne(articleAt(args.articles, current), reply)
                stored == (slotFor(current, batch.results) :> out) @@ batch.results
            IN IF batch.index < Len(args.articles)
               THEN batch' = [batch EXCEPT
                                !.results = stored,
                                !.workers[w].current = claim(batch.index).current,
                                !.calls = Append(@, [worker |-> w,
                                                     current |-> claim(batch.index).current]),
                                !.index = claim(batch.index).index]
               ELSE batch' = [batch EXCEPT !.results = stored,
                                           !.workers[w].state = "done"]
    /\ UNCHANGED <<handlerVars, args, result, checks, page>>

\* lines 102-103: every worker ended without a rejection; the results array
\* is returned (its slots are 0-based)
BatchReturn ==
    /\ batch # <<>>
    /\ batch.status = "running"
    /\ \A w \in 1..Len(batch.workers) : batch.workers[w].state = "done"
    /\ batch' = [batch EXCEPT !.status = "returned"]
    /\ result' = {batch.results}
    /\ UNCHANGED <<handlerVars, args, checks, page>>

BatchNext ==
    \/ BatchStart
    \/ \E w \in 1..BATCH_CONCURRENCY_CAP, reply \in {"json", "text", "reject"} : BatchComplete(w, reply)
    \/ BatchReturn

SpecBatch == BatchInit /\ [][BatchNext]_vars

-----------------------------------------------------------------------------
(* RateLimiter (part_009): check calls of one limiter running concurrently. *)
(* A call is at one of its awaits: incr, expire, ttl; or it has returned    *)
(* (done) or thrown (failed).                                               *)

\* the configuration: prefix, windowSec, max
LimitArgs ==
    { [fn |-> "RateLimiter.check", prefix |-> "rl", windowSec |-> 60, max |-> m]
      : m \in {1, 2} }

\* lines 39-41
keyFor(ip) == [ns |-> args.prefix, ip |-> ip]

\* needsExpire for every hit
needsExpireAlways(current) == TRUE
\* line 55: the first hit of a window sets the expiry
needsExpire(current) == current = 1

\* allowed with one request more than max
allowedOneMore(current, max) == current <= max + 1
\* line 67
allowed(current, max) == current <= max

LimitInit ==
    /\ store = <<>> /\ now = 0 /\ upstash = TRUE /\ DISABLE_CACHE = FALSE
    /\ modelName \in ModelNames /\ pc = "idle" /\ body = <<>> /\ cacheGot = {}
    /\ modelCalls = <<>> /\ raw = {} /\ payload = {} /\ written = {}
    /\ faults = {} /\ resp = {} /\ nreq = 0
    /\ args \in LimitArgs /\ result = {} /\ batch = <<>> /\ checks = <<>> /\ page = <<>>

\* lines 47-49: a call of check(ip) starts
CheckStart(ip) ==
    /\ Len(checks) < MaxChecks
    /\ checks' = Append(checks, [ip |-> ip, pc |-> "incr", nowSec |-> now,
                                 current |-> {}, calls |-> <<>>, out |-> {}])
    /\ UNCHANGED <<handlerVars, args, result, batch, page>>

\* line 52: the INCR of call c.
\*   ok     the store increments the counter and answers with the new value
\*   error  the command does not reach the store, or the store refuses it
\*   lost   the store increments the counter and the answer does not arrive
CheckIncr(c, outcome) ==
    /\ c \in DOMAIN checks /\ checks[c].pc = "incr"
    /\ LET key == keyFor(checks[c].ip)
           count == incr(key)
           counted == IF key \in DOMAIN store
                      THEN [store EXCEPT ![key].value = count]
                      ELSE (key :> [value |-> count, expiresAt |-> -1]) @@ store
       IN /\ store' = IF outcome = "error" THEN store ELSE counted
          /\ checks' = [checks EXCEPT
                          ![c].calls = Append(@, "INCR"),
                          ![c].current = IF outcome = "ok" THEN {count} ELSE {},
                          ![c].pc = IF outcome # "ok" THEN "failed"
                                    ELSE IF needsExpire(count) THEN "expire" ELSE "ttl"]
    /\ UNCHANGED <<now, upstash, DISABLE_CACHE, modelName, pc, body, cacheGot, modelCalls,
                   raw, payload, written, faults, resp, nreq, args, result, batch, page>>

\* lines 55-57: the EXPIRE of call c; when it throws, check throws
CheckExpire(c, ok) ==
    /\ c \in DOMAIN checks /\ checks[c].pc = "expire"
    /\ LET key == keyFor(checks[c].ip)
       IN store' = IF ok /\ key \in DOMAIN store
                   THEN [store EXCEPT ![key].expiresAt = now + args.windowSec]
                   ELSE store
    /\ checks' = [checks EXCEPT ![c].calls = Append(@, "EXPIRE"),
                                ![c].pc = IF ok THEN "ttl" ELSE "failed"]
    /\ UNCHANGED <<now, upstash, DISABLE_CACHE, modelName, pc, body, cacheGot, modelCalls,
                   raw, payload, written, faults, resp, nreq, args, result, batch, page>>

\* lines 59-71: the TTL of call c (a failure is swallowed, a key without
\* expiry gives null) and the result check returns
CheckTtl(c, ok) ==
    /\ c \in DOMAIN checks /\ checks[c].pc = "ttl"
    /\ LET key == keyFor(checks[c].ip)
           current == The(checks[c].current)
           ttl == IF ok /\ key \in DOMAIN store /\ store[key].expiresAt - now >= 0
                     /\ store[key].expiresAt # -1
                  THEN {store[key].expiresAt - now} ELSE {}
           resetAtUnixSec == IF ttl # {} /\ The(ttl) > 0
                             THEN checks[c].nowSec + The(ttl)
                             ELSE checks[c].nowSec + args.windowSec
       IN checks' = [checks EXCEPT
                       ![c].calls = Append(@, "TTL"),
                       ![c].pc = "done",
                       ![c].out = {[allowed |-> allowed(current, args.max),
                                    remaining |-> Max(0, args.max - current),
                                    resetAtUnixSec |-> resetAtUnixSec,
                                    current |-> current, key |-> key]}]
    /\ UNCHANGED <<handlerVars, args, result, batch, page>>

LimitNext ==
    \/ \E ip \in ClientIps : CheckStart(ip)
    \/ \E c \in 1..MaxChecks, o \in {"ok", "error", "lost"} : CheckIncr(c, o)
    \/ \E c \in 1..MaxChecks, ok \in BOOLEAN : CheckExpire(c, ok)
    \/ \E c \in 1..MaxChecks, ok \in BOOLEAN : CheckTtl(c, ok)

SpecLimit == LimitInit /\ [][LimitNext]_vars

-----------------------------------------------------------------------------
(* lib/auth.ts: requireToken, the wrapper of both handlers.  args holds the *)
(* event (its method and headers) and the INTERNAL_TOKEN of the             *)
(* environment; headers is the list of the event's header entries in key    *)
(* order, each a name and an optional value, and {} when the event has no   *)
(* headers object.  result holds the response and whether inner was called. *)

MaxHeaders == 2

\* lines 5-15: the entry under the lowercased name if the object has that
\* key, otherwise the first entry whose name matches without case
getHeader(headers, name) ==
    LET key == toLowerCase(name)
        exact == { i \in DOMAIN headers : headers[i].name = key }
        loose == { i \in DOMAIN headers : toLowerCase(headers[i].name) = key }
    IN IF exact # {} THEN headers[The(exact)].value
       ELSE IF loose # {} THEN headers[CHOOSE i \in loose : \A j \in loose : i <= j].value
       ELSE {}

tokenOkAlways(headers, envToken) == TRUE

\* lines 18-25
tokenOk(headers, envToken) ==
    IF envToken = {} \/ Len(The(envToken)) = 0 THEN TRUE
    ELSE getHeader(headers, <<"x-internal-token">>) = envToken

\* lines 33-35
isPreflight(event) == toUpperCase(OrElse(event.method, <<"GET">>)) = <<"OPTIONS">>

\* lines 38-55; innerStatus is the status of the response inner returns
requireToken(event, envToken, innerStatus) ==
    IF isPreflight(event)
    THEN [statusCode |-> 204, headers |-> {"Content-Type"}, body |-> <<>>, inner |-> FALSE]
    ELSE IF ~tokenOk(OrElse(event.headers, <<>>), envToken)
    THEN [statusCode |-> 401, headers |-> {"Content-Type"},
          body |-> [ok |-> FALSE, error |-> "Unauthorized"], inner |-> FALSE]
    ELSE [statusCode |-> innerStatus, headers |-> corsHeaders, body |-> <<>>, inner |-> TRUE]

\* the events: a method or none, a headers object or none; the names of one
\* object differ
AuthInit ==
    /\ AtRest /\ result = {} /\ batch = <<>> /\ checks = <<>> /\ page = <<>>
    /\ \E m \in { {}, {<<"GET">>}, {<<"POST">>}, {<<"OPTIONS">>}, {<<"options">>} },
          h \in { {} } \cup
                { {q} : q \in { q \in Seqs([name : { <<"x-internal-token">>, <<"X-Internal-Token">>,
                                                       <<"X-INTERNAL-TOKEN">>, <<"content-type">> },
                                              value : { {}, {<<"s">>}, {<<"w">>} }], MaxHeaders) :
                                    \A i, j \in DOMAIN q : i # j => q[i].name # q[j].name } },
          t \in { {}, {<<>>}, {<<"s">>} } :
          args = [fn |-> "requireToken", event |-> [method |-> m, headers |-> h],
                  INTERNAL_TOKEN |-> t]

AuthCall ==
    /\ result = {}
    /\ \E innerStatus \in {200, 502} :
          result' = {requireToken(args.event, args.INTERNAL_TOKEN, innerStatus)}
    /\ UNCHANGED <<handlerVars, args, batch, checks, page>>

SpecAuth == AuthInit /\ [][AuthCall]_vars

-----------------------------------------------------------------------------
(* frontend/app/news-ai-agent/page.tsx: handleRun.  page holds the state of *)
(* the component (loading, error, fellBackToFast, wasCached, summary) and   *)
(* runs, the handleRun calls started so far: each has its position, the     *)
(* mode it captured, the items its search returned and the summarizeNews    *)
(* calls it made.  The code between two awaits is one step.  The "Run last  *)
(* topic" button is never disabled, so a run may start while another waits. *)

MaxRuns == 2

\* lib/api.ts 85-137: how a summarizeNews call ends, with a response or with
\* an Error and its message
SummarizeOutcomes ==
    { [ok |-> TRUE, cached |-> c, summaryText |-> <<"s">>] : c \in BOOLEAN } \cup
    { [ok |-> FALSE, message |-> m]
      : m \in { <<"HTTP_502">>, <<"Too Many Requests">>,
                <<"HTTP_400: ", "No usable items">>,
                <<"Empty summarize payload (no blocks or summaryText).">> } }

shownErrorNone(msg) == <<>>

\* lines 230-238: the text the catch hands to setError
shownError(msg) ==
    IF includes(msg, <<"No usable items">>)
    THEN <<"The news source returned items without required fields.">>
    ELSE IF includes(msg, <<"No relevant articles">>) \/ includes(msg, <<"No items provided">>)
    THEN <<"No relevant articles found. Refine your topic and try again.">>
    ELSE msg

RunInit ==
    /\ AtRest /\ result = {} /\ batch = <<>> /\ checks = <<>>
    /\ args = [fn |-> "handleRun"]
    /\ page = [loading |-> FALSE, error |-> <<>>, fellBackToFast |-> FALSE,
               wasCached |-> FALSE, summary |-> <<>>, runs |-> <<>>]

\* lines 154-171: up to the await of searchNews; v is what validateTopic
\* returns for the topic, mode the mode the page shows
RunStart(mode, v) ==
    /\ args.fn = "handleRun"
    /\ Len(page.runs) < MaxRuns
    /\ page' = IF ~v.ok
               THEN [page EXCEPT !.error = v.reason, !.fellBackToFast = FALSE,
                                 !.wasCached = FALSE,
                                 !.runs = Append(@, [pc |-> "done", mode |-> mode,
                                                     items |-> <<>>, calls |-> <<>>])]
               ELSE [page EXCEPT !.error = <<>>, !.fellBackToFast = FALSE,
                                 !.wasCached = FALSE, !.loading = TRUE, !.summary = <<>>,
                                 !.runs = Append(@, [pc |-> "search", mode |-> mode,
                                                     items |-> <<>>, calls |-> <<>>])]
    /\ UNCHANGED <<handlerVars, args, result, batch, checks>>

\* lines 171-192 and 230-241: searchNews ended; s is its response or error
RunSearchDone(r, s) ==
    /\ r \in DOMAIN page.runs /\ page.runs[r].pc = "search"
    /\ page' = IF ~s.ok
               THEN [page EXCEPT !.error = shownError(s.message), !.loading = FALSE,
                                 !.runs[r].pc = "done"]
               ELSE IF Len(s.items) = 0
               THEN [page EXCEPT !.error = <<"No relevant articles found for this topic.">>,
                                 !.summary = <<>>, !.loading = FALSE,
                                 !.runs[r].pc = "done"]
               ELSE [page EXCEPT !.runs[r].pc = "summarize", !.runs[r].items = s.items,
                                 !.runs[r].calls = <<[mode |-> page.runs[r].mode,
                                                      items |-> s.items,
                                                      outcome |-> "pending"]>>]
    /\ UNCHANGED <<handlerVars, args, result, batch, checks>>

\* lines 192-241: the first summarizeNews call ended; o is how
RunSummarizeDone(r, o) ==
    /\ r \in DOMAIN page.runs /\ page.runs[r].pc = "summarize"
    /\ page' = IF o.ok
               THEN [page EXCEPT !.wasCached = o.cached, !.summary = o.summaryText,
                                 !.loading = FALSE, !.runs[r].pc = "done",
                                 !.runs[r].calls[1].outcome = "ok"]
               ELSE IF page.runs[r].mode = "quality"
               THEN [page EXCEPT !.runs[r].pc = "fallback",
                                 !.runs[r].calls = <<[@[1] EXCEPT !.outcome = "failed"],
                                                     [mode |-> "fast",
                                                      items |-> page.runs[r].items,
                                                      outcome |-> "pending"]>>]
               ELSE [page EXCEPT !.error = shownError(o.message), !.loading = FALSE,
                                 !.runs[r].pc = "done",
                                 !.runs[r].calls[1].outcome = "failed"]
    /\ UNCHANGED <<handlerVars, args, result, batch, checks>>

\* lines 203-241: the summarizeNews call in fast mode ended; o is how
RunFallbackDone(r, o) ==
    /\ r \in DOMAIN page.runs /\ page.runs[r].pc = "fallback"
    /\ page' = IF o.ok
               THEN [page EXCEPT !.fellBackToFast = TRUE, !.wasCached = o.cached,
                                 !.summary = o.summaryText, !.loading = FALSE,
                                 !.runs[r].pc = "done",
                                 !.runs[r].calls[2].outcome = "ok"]
               ELSE [page EXCEPT !.error = shownError(o.message), !.loading = FALSE,
                                 !.runs[r].pc = "done",
                                 !.runs[r].calls[2].outcome = "failed"]
    /\ UNCHANGED <<handlerVars, args, result, batch, checks>>

RunNext ==
    \/ \E mode \in {"fast", "quality"},
          v \in { [ok |-> TRUE], [ok |-> FALSE, reason |-> <<"Too short.">>] } :
          RunStart(mode, v)
    \/ \E r \in 1..MaxRuns,
          s \in { [ok |-> TRUE, items |-> <<>>], [ok |-> TRUE, items |-> <<ItemA>>],
                  [ok |-> TRUE, items |-> <<ItemA, ItemB>>],
                  [ok |-> FALSE, message |-> <<"HTTP_502">>] } :
          RunSearchDone(r, s)
    \/ \E r \in 1..MaxRuns, o \in SummarizeOutcomes : RunSummarizeDone(r, o)
    \/ \E r \in 1..MaxRuns, o \in SummarizeOutcomes : RunFallbackDone(r, o)

SpecRun == RunInit /\ [][RunNext]_vars

-----------------------------------------------------------------------------
(* Claims *)

Done == pc = "done"
\* the request passed validation: at least one usable item
Valid == Len(UsableItems) > 0
\* the text before the first line break
RECURSIVE firstLine(_)
firstLine(s) ==
    IF s = <<>> \/ Head(s) = "\n" THEN <<>> ELSE <<Head(s)>> \o firstLine(Tail(s))
\* all orderings of a sequence
Perms(q) ==
    { [i \in 1..Len(q) |-> q[f[i]]]
      : f \in { g \in [1..Len(q) -> 1..Len(q)] : \A i, j \in 1..Len(q) : g[i] = g[j] => i = j } }

\* C1: every 200 response of summarizeImpl, computed or served from the
\* cache, carries a non-blank summaryText or a non-empty blocks array.
C1_Ok200HasContent ==
    \A r \in resp : r.statusCode = 200 => hasText(r.body) \/ hasBlocksArray(r.body)

\* a quality request whose model answered with text that is not JSON got a 200
C1_Witness ==
    /\ Done /\ Mode = "quality" /\ raw = {PlainText(<<"Sorry">>)}
    /\ \E r \in resp : r.statusCode = 200

\* the model step failed: callOpenAI threw, its text is not JSON, the document
\* has no non-empty blocks array, or no entry of blocks has a usable url
ModelStepFailed ==
    \/ raw = {}
    \/ JSONparse(The(raw)).threw
    \/ LET doc == The(JSONparse(The(raw)).value)
       IN \/ Get(doc, "blocks") = {}
          \/ \A i \in 1..Len(doc.blocks) :
                \/ doc.blocks[i] = NullEntry
                \/ Get(doc.blocks[i], "url") \subseteq {NonString}
                \/ trim(doc.blocks[i].url) = <<>>

\* C2: in quality mode with a usable item, a request that reads nothing from
\* the cache and meets no store failure never answers 500, and every failure
\* of the model step ends in 200 with summaryText the formatter's output
\* over the filtered items.
C2_ModelFailureFallsBack ==
    (Done /\ Mode = "quality" /\ Valid /\ faults = {} /\ cacheGot = {}) =>
        \E r \in resp :
            /\ r.statusCode # 500
            /\ ModelStepFailed =>
                 /\ r.statusCode = 200
                 /\ Get(r.body, "summaryText") = {styleAwareFallback(UsableItems, Lang, Style)}

\* C3: a request that met a failure of the cache store (a get or setex that
\* throws, an answer or an entry that does not parse) still answers 200.
C3_StoreFailureNotSurfaced ==
    (Done /\ faults # {}) => \E r \in resp : r.statusCode = 200

\* C4: no block returned by normalizeBlocksForCache has a url that is
\* missing, empty or only whitespace; the entries with such a url are
\* dropped, so the output has at most one block per entry with a usable url.
C4_NoBlankUrlInOutput ==
    \A r \in result :
        (args.fn = "normalizeBlocksForCache" /\ ~r.threw) =>
            \A out \in r.value :
                /\ \A i \in 1..Len(out) :
                      "url" \in DOMAIN out[i] /\ trim(out[i].url) # <<>>
                /\ Len(out) <= Cardinality({ i \in 1..Len(The(args.blocks)) :
                                 /\ The(args.blocks)[i] # NullEntry
                                 /\ Get(The(args.blocks)[i], "url") # {}
                                 /\ trim(The(args.blocks)[i].url) # <<>> })

\* a call returned blocks although an entry of its input had a blank url
C4_Witness ==
    /\ args # <<>> /\ args.fn = "normalizeBlocksForCache"
    /\ \E r \in result : ~r.threw /\ r.value # {}
    /\ \E i \in 1..Len(The(args.blocks)) : The(args.blocks)[i] = BlockBlank

\* C5: setex is called only with a payload that has content: every value
\* handed to the store parses to a payload with a non-blank summaryText or a
\* non-empty blocks array.
C5_WrittenHasContent ==
    /\ pc = "cacheWrite" => hasContent(The(payload))
    /\ \A v \in written : ~JSONparse(v).threw /\ hasContent(The(JSONparse(v).value))

\* a request wrote its payload
C5_Witness == Done /\ written # {} /\ CacheKey \in DOMAIN store

\* C6: at most two model calls per request; the first uses the convention the
\* model name selects; the second happens only after the first failed with an
\* error naming an unsupported parameter, uses the other convention, and is
\* the last.
C6_AtMostOneRetry ==
    /\ Len(modelCalls) <= 2
    /\ pc = "call2" => Len(modelCalls) = 1
    /\ Len(modelCalls) >= 1 =>
         /\ modelCalls[1].useCompletionTokens = usesMaxCompletionTokens(modelName)
         /\ pc # "call1"
    /\ Len(modelCalls) = 2 =>
         /\ modelCalls[1].threw /\ modelCalls[1].paramError
         /\ modelCalls[2].useCompletionTokens = ~modelCalls[1].useCompletionTokens
         /\ pc \notin {"call1", "call2"}

\* the retry was made, and failed as well
C6_Witness == Done /\ Len(modelCalls) = 2 /\ modelCalls[2].threw

HeaderEn3 == <<"Balanced summary (", "e", "n", ") U+2014 ", "3", " item(s):">>

C8_CachedMeansServedFromStore ==
    [][ (resp = {} /\ resp' # {} /\ The(resp').statusCode = 200) =>
          IF The(resp').body.cached
          THEN /\ pc = "cacheRead"
               /\ CacheKey \in DOMAIN store
               /\ \A k \in DOMAIN store[CacheKey].value.value :
                     The(resp').body[k] = store[CacheKey].value.value[k]
               /\ DOMAIN The(resp').body \subseteq
                     DOMAIN store[CacheKey].value.value \cup {"ok", "cached", "blocks"}
               /\ store' = store
               /\ modelCalls' = <<>> /\ written' = {} /\ payload' = {}
          ELSE /\ payload' # {}
               /\ The(resp').body = The(payload') @@ [ok |-> TRUE, cached |-> FALSE]
      ]_vars

\* a quality request was answered from the cache
C8_Witness ==
    /\ Done /\ Mode = "quality"
    /\ \E r \in resp : r.statusCode = 200 /\ r.body.cached

\* the payload fields C9 names
RoundTripFields == {"mode", "style", "count", "summaryText", "at"}

\* C9 as stated: a cache read that the store answers, for a key under which
\* a payload was written and has not expired, ends the request with 200,
\* cached:true and the mode, style, count, summaryText, blocks and at of the
\* written payload.
C9_RoundTripAsStated ==
    [][ (pc = "cacheRead" /\ pc' # "cacheRead" /\ faults' = {}
         /\ CacheKey \in DOMAIN store /\ now < store[CacheKey].expiresAt) =>
          /\ resp' # {}
          /\ The(resp').statusCode = 200
          /\ The(resp').body.cached
          /\ \A k \in RoundTripFields \cup {"blocks"} :
                Get(The(resp').body, k) = Get(store[CacheKey].value.value, k)
      ]_vars

\* C9 amended: as stated for mode, style, count, summaryText and at; blocks
\* is the written blocks when the written payload had blocks, and an empty
\* array when it had none.
C9_RoundTripAmended ==
    [][ (pc = "cacheRead" /\ pc' # "cacheRead" /\ faults' = {}
         /\ CacheKey \in DOMAIN store /\ now < store[CacheKey].expiresAt) =>
          /\ resp' # {}
          /\ The(resp').statusCode = 200
          /\ The(resp').body.cached
          /\ \A k \in RoundTripFields :
                Get(The(resp').body, k) = Get(store[CacheKey].value.value, k)
          /\ The(resp').body.blocks = OrElse(Get(store[CacheKey].value.value, "blocks"), <<>>)
      ]_vars

\* a payload without blocks was read back after the clock had advanced
C9_Witness ==
    /\ Done /\ cacheGot # {} /\ The(cacheGot).kind = "json"
    /\ "blocks" \notin DOMAIN The(cacheGot).value
    /\ \E r \in resp : r.statusCode = 200 /\ r.body.cached /\ r.body.at.iso < now

\* C10: makeSummCacheKey returns the same key for every ordering of the
\* items array, lang, maxItems, mode and style being equal.
C10_KeyIgnoresItemOrder ==
    \A r \in result :
        args.fn = "makeSummCacheKey" =>
            \A q \in Perms(args.items) :
                makeSummCacheKey(SUMM_V, args.lang, args.maxItems, args.mode,
                                 args.style, q) = r

\* the values each argument of makeSummCacheKey is drawn from
KeyLangs == { a.lang : a \in KeyArgs }
KeyMaxItems == { a.maxItems : a \in KeyArgs }
KeyModes == { a.mode : a \in KeyArgs }
KeyStyles == { a.style : a \in KeyArgs }
\* the arrays that differ from items in the title or url of one entry
OneItemChanged(items) ==
    UNION { { [items EXCEPT ![i] = it]
              : it \in { x \in KeyItemPool : x.title # items[i].title \/ x.url # items[i].url } }
            : i \in 1..Len(items) }

\* C11: with an injective hash, the key of a request differs from the key of
\* every request with another lang, maxItems, mode or style, and from the
\* key of every request whose items differ in the title or url of one item.
C11_KeySeparatesRequests ==
    \A r \in result :
        args.fn = "makeSummCacheKey" =>
            /\ \A l \in KeyLangs, m \in KeyMaxItems, mo \in KeyModes, st \in KeyStyles :
                  <<l, m, mo, st>> # <<args.lang, args.maxItems, args.mode, args.style>>
                    => makeSummCacheKey(SUMM_V, l, m, mo, st, args.items) # r
            /\ \A its \in OneItemChanged(args.items) :
                  /\ makeSummCacheKey(SUMM_V, args.lang, args.maxItems, args.mode,
                                      args.style, its) # r
                  /\ \A st \in KeyStyles :
                        makeSummCacheKey(SUMM_V, args.lang, args.maxItems, args.mode,
                                         st, its) # r

\* a key was derived for two items whose url + title concatenations are equal
C11_Witness ==
    /\ args # <<>> /\ args.fn = "makeSummCacheKey" /\ result # {}
    /\ args.items = <<ItemA, ItemB>>

\* the version tags SUMM_V may be configured to
VersionTags == { SUMM_V, "8", "7:8" }

\* C12: for the same request input, the key derived under another version
\* tag differs from the key derived under SUMM_V, so an entry stored under
\* one version is not found under the key of another.
C12_VersionIsolation ==
    \A r \in result :
        args.fn = "makeSummCacheKey" =>
            \A v \in VersionTags \ {SUMM_V} :
                LET other == makeSummCacheKey(v, args.lang, args.maxItems, args.mode,
                                              args.style, args.items)
                    stored == r :> [value |-> "payload"]
                IN other # r /\ other \notin DOMAIN stored

\* a key was derived for a request with items
C12_Witness ==
    /\ args # <<>> /\ args.fn = "makeSummCacheKey" /\ result # {}
    /\ Len(args.items) = MaxKeyItems /\ The(result).v = SUMM_V

\* a usable item: title, url, source and publishedAt are present and not ""
Usable(i) ==
    \A k \in {"title", "url", "source", "publishedAt"} : k \in DOMAIN i /\ i[k] # <<>>
\* parsed.items is an array with at least one entry
ItemsGiven == body # Unparsed /\ Get(body, "items") # {} /\ body.items # NotAnArray
                /\ Len(body.items) > 0
\* no cache read, no model call, no cache write
NoIO == cacheGot = {} /\ modelCalls = <<>> /\ written = {} /\ faults = {} /\ payload = {}

\* C13: a request whose items are missing, not an array or empty answers 400
\* "No items provided"; one whose items are given but none of them usable
\* answers 400 "No usable items after normalization"; neither reads the
\* cache, calls the model or writes the cache.
C13_ValidationRejects ==
    /\ (body # Unparsed /\ pc # "idle" /\ ~ItemsGiven) =>
          pc = "done" /\ resp = {BadRequest("No items provided")} /\ NoIO
    /\ (ItemsGiven /\ \A i \in 1..Len(body.items) : ~Usable(body.items[i])) =>
          /\ pc = "done"
          /\ resp = {BadRequest("No usable items after normalization")}
          /\ NoIO
    /\ BadRequest("No items provided") # BadRequest("No usable items after normalization")

\* a request with one unusable item was rejected while the store held an entry
C13_Witness ==
    /\ pc = "done" /\ CacheOn /\ store # <<>>
    /\ ItemsGiven /\ body.items = <<ItemU>>
    /\ resp = {BadRequest("No usable items after normalization")}

\* C14: a request whose cache read returned an entry without content answers
\* 200 with cached:false and leaves its newly computed payload under the key.
C14_EmptyHitSelfHeals ==
    (pc = "done" /\ cacheGot = {StaleEntry}) =>
        /\ \E r \in resp : r.statusCode = 200 /\ ~r.body.cached
        /\ payload # {}
        /\ CacheKey \in DOMAIN store
        /\ store[CacheKey].value = cacheValue(The(payload))

\* an exception reached the catch of summarizeImpl
Threw ==
    \/ body = Unparsed
    \/ faults \cap {"http-error", "not-json", "setex-error"} # {}
    \/ Valid /\ assemblePayload(Mode, raw, UsableItems, Lang, Style, now).threw

\* C15: a request in progress has no response and a finished request has
\* exactly one; it is 400 exactly for the two validation failures, 500 with
\* ok:false and a message exactly when an exception was thrown, and 200 with
\* ok:true otherwise, carrying a payload read or computed.
C15_OneResponse ==
    /\ pc \notin {"idle", "done"} => resp = {}
    /\ pc = "done" =>
         /\ Cardinality(resp) = 1
         /\ \A r \in resp :
              /\ r.statusCode \in {200, 400, 500}
              /\ r.statusCode = 400 <=> (body # Unparsed /\ ~Valid)
              /\ r.statusCode = 400 => ~r.body.ok
              /\ r.statusCode = 500 <=> Threw
              /\ r.statusCode = 500 => ~r.body.ok /\ "error" \in DOMAIN r.body
              /\ r.statusCode = 200 =>
                   /\ r.body.ok
                   /\ IF r.body.cached THEN cacheGot # {}
                      ELSE payload # {} /\ r.body = The(payload) @@ [ok |-> TRUE, cached |-> FALSE]

\* a request whose body is not JSON was answered 500
C15_Witness ==
    /\ pc = "done" /\ body = Unparsed
    /\ \E r \in resp : r.statusCode = 500 /\ ~r.body.ok

\* C16: every request that was received is eventually answered, the model
\* calls being ended by their timers and the store calls being bounded too.
C16_EveryRequestAnswered == (pc \notin {"idle", "done"}) ~> (pc = "done")

\* the number of item lines of a formatter text: header, blank line, the
\* lines, blank line, outro
itemLines(text) == Cardinality({ i \in 1..Len(text) : text[i] = "\n" }) - 3

\* C20: in every 200 response that was computed, count is the number of
\* usable items left after filtering and clamping, and it is the number of
\* items the summary lists.
C20_CountIsItemsSummarized ==
    \A r \in resp :
        (r.statusCode = 200 /\ ~r.body.cached) =>
            /\ r.body.count = Cardinality({ i \in 1..Len(Incoming) : Usable(Incoming[i]) })
                 \/ r.body.count = MaxItems
            /\ r.body.count <= Len(Incoming)
            /\ "blocks" \notin DOMAIN r.body => r.body.count = itemLines(r.body.summaryText)

\* C17: a search request that takes the counter of its client key above the
\* configured maximum is answered 429, a status no other failure uses, and
\* the response carries a retry-after hint, as a header or in its body.
C17_RateLimitedWithHint ==
    [][ (nreq' = nreq + 1 /\ args.fn = "searchNews"
         /\ rateKey(body'.ip) \in DOMAIN store' /\ store' # store
         /\ faults' = {}
         /\ store'[rateKey(body'.ip)].value > args.max) =>
          \A r \in resp' :
              /\ r.statusCode = 429
              /\ "Retry-After" \in r.headers \/ "retryAfter" \in DOMAIN r.body
      ]_vars

\* the summarizeOne calls in flight
InFlight == IF batch = <<>> THEN {}
            ELSE { w \in 1..Len(batch.workers) : batch.workers[w].state = "await" }

\* C18: the array summarizeBatch returns has one slot per article, and slot i
\* holds the summary of articles[i], whatever the order of completion.
C18_SlotsFollowInput ==
    \A r \in result :
        args.fn = "summarizeBatch" =>
            /\ DOMAIN r = 0..(Len(args.articles) - 1)
            /\ \A i \in DOMAIN r :
                  /\ r[i].title = args.articles[i + 1].title
                  /\ r[i].url = args.articles[i + 1].url
                  /\ "summary" \in DOMAIN r[i]

\* a batch of two workers returned in which the second worker summarized
\* only articles[1]: the later articles were completed before it
C18_Witness ==
    /\ batch # <<>> /\ batch.status = "returned" /\ result # {}
    /\ Len(args.articles) = MaxArticles
    /\ Len(batch.workers) = 2 /\ batch.workers[2].current = 1

ModelGaveBlocksWithUrls ==
    /\ raw # {} /\ ~JSONparse(The(raw)).threw
    /\ LET doc == The(JSONparse(The(raw)).value)
       IN /\ Get(doc, "blocks") # {} /\ Len(doc.blocks) > 0
          /\ \A i \in 1..Len(doc.blocks) :
                /\ doc.blocks[i] # NullEntry
                /\ Get(doc.blocks[i], "url") # {}
                /\ doc.blocks[i].url # NonString /\ trim(doc.blocks[i].url) # <<>>

\* C21: a quality request whose model returned a JSON document with a
\* non-empty url in every block is answered 200 with cached false, one block
\* per model block in the model's order, and no summaryText.
C21_QualityBlocksServed ==
    (Done /\ Mode = "quality" /\ ModelGaveBlocksWithUrls) =>
        LET doc == The(JSONparse(The(raw)).value)
        IN \E r \in resp :
              /\ r.statusCode = 200 /\ r.body.cached = FALSE
              /\ "summaryText" \notin DOMAIN r.body
              /\ "blocks" \in DOMAIN r.body
              /\ Len(r.body.blocks) = Len(doc.blocks)
              /\ \A i \in 1..Len(doc.blocks) :
                    r.body.blocks[i].url = trim(doc.blocks[i].url)

\* C22's reading of the claim: the first min(maxItems, number of usable
\* items) usable items of the request's items, in input order
FirstUsable ==
    LET u == SelectSeq(Incoming, Usable)
    IN SubSeq(u, 1, Min(MaxItems, Len(u)))

\* C22: the items summarizeImpl derives the cache key from, puts into every
\* prompt and hands to the formatter are the first min(maxItems, number of
\* usable items) usable items of the input in input order; no unusable item
\* is in a prompt or in the formatter's text.
C22_ItemsAreFirstUsable ==
    (pc # "idle" /\ body # Unparsed) =>
        /\ UsableItems = FirstUsable
        /\ CacheKey = makeSummCacheKey(SUMM_V, Lang, MaxItems, Mode, Style, FirstUsable)
        /\ \A c \in 1..Len(modelCalls) :
              /\ Len(modelCalls[c].prompt.items) = Len(FirstUsable)
              /\ \A i \in 1..Len(FirstUsable) :
                    /\ modelCalls[c].prompt.items[i].n = i
                    /\ modelCalls[c].prompt.items[i].title = FirstUsable[i].title
                    /\ modelCalls[c].prompt.items[i].url = FirstUsable[i].url
                    /\ modelCalls[c].prompt.items[i].src = FirstUsable[i].source
        /\ \A p \in payload :
              (Mode = "fast" \/ raw = {}) =>
                 Get(p, "summaryText") = {styleAwareFallback(FirstUsable, Lang, Style)}

\* a quality request with an unusable item first and two usable ones, cut to
\* one item by maxItems, called the model and answered with the fallback
C22_Witness ==
    /\ Done /\ Mode = "quality" /\ Get(body, "items") = {<<ItemU, ItemC, ItemA>>}
    /\ UsableItems = <<ItemC>> /\ Len(modelCalls) = 2 /\ raw = {}
    /\ \E p \in payload : "summaryText" \in DOMAIN p

\* C23: with SUMM_DEBUG_NOCACHE set a summarize request never reads the
\* cache, so no response of it carries cached true.
C23_NoCacheReadWhenDisabled ==
    DISABLE_CACHE =>
        /\ pc # "cacheRead" /\ cacheGot = {}
        /\ \A r \in resp : r.statusCode = 200 => r.body.cached = FALSE

\* with the flag set and the store configured, a second request was answered 200
C23_Witness ==
    /\ DISABLE_CACHE /\ upstash /\ Done /\ nreq = 2 /\ Valid
    /\ \E r \in resp : r.statusCode = 200 /\ r.body.cached = FALSE

\* the blocks argument of a call of normalizeBlocksForCache as a sequence:
\* empty when the argument is undefined or not an array
InputBlocks ==
    IF args.blocks = {} \/ ~isArray(The(args.blocks)) THEN <<>> ELSE The(args.blocks)
\* an entry the normaliser is to keep: an object whose url is a string with
\* more than whitespace in it
Survives(b) ==
    /\ b # NullEntry /\ Get(b, "url") # {}
    /\ b.url # NonString /\ trim(b.url) # <<>>
\* the positions (1-based) of the surviving entries, in input order
SurvivorPositions ==
    SelectSeq([i \in 1..Len(InputBlocks) |-> i], LAMBDA i : Survives(InputBlocks[i]))

\* C24: normalizeBlocksForCache does not throw, whatever array it is given
\* (null entries, entries that are not objects, fields that are not strings).
C24_NormalizerNeverThrows ==
    \A r \in result : args.fn = "normalizeBlocksForCache" => ~r.threw

\* C25: normalizeBlocksForCache returns undefined exactly when no entry
\* survives or the input is not an array; otherwise it returns the surviving
\* entries in their input order, never more than the input has.
C25_SurvivorsInOrder ==
    \A r \in result :
        args.fn = "normalizeBlocksForCache" =>
            /\ ~r.threw
            /\ r.value = {} <=> SurvivorPositions = <<>>
            /\ \A out \in r.value :
                  /\ Len(out) = Len(SurvivorPositions)
                  /\ Len(out) <= Len(InputBlocks)
                  /\ \A j \in 1..Len(out) :
                        out[j].url = trim(InputBlocks[SurvivorPositions[j]].url)

\* C26: a block that normalizeBlocksForCache returns keeps the idx of its
\* entry when that is a finite number greater than 0 and otherwise gets the
\* entry's 1-based position in the input array; every idx is positive.
C26_IdxKeptOrPosition ==
    \A r \in result :
        (args.fn = "normalizeBlocksForCache" /\ ~r.threw) =>
            \A out \in r.value :
                /\ Len(out) = Len(SurvivorPositions)
                /\ \A j \in 1..Len(out) :
                      LET i == SurvivorPositions[j]
                          b == InputBlocks[i]
                          kept == /\ "idx" \in DOMAIN b /\ "n" \in DOMAIN b.idx
                                  /\ b.idx.n > 0
                      IN /\ out[j].idx = IF kept THEN b.idx.n ELSE i
                         /\ out[j].idx > 0

\* the only survivor is the second entry and its idx of 0 became 2, while
\* another call kept an idx of 4 in first position
C26_Witness ==
    /\ args # <<>> /\ args.fn = "normalizeBlocksForCache"
    /\ args.blocks = {<<BlockBlank, BlockMessy>>}
    /\ \E r \in result : ~r.threw /\ r.value # {} /\ The(r.value)[1].idx = 2
    /\ normalizeBlocksForCache({<<BlockGood>>}, "balanced").value = {<<
          [kind |-> "keyPoint", idx |-> 4, title |-> <<"t">>, url |-> <<"a">>,
           source |-> <<"Src1">>, date |-> <<"2025-01-02">>] >>}

\* the lines of a text, empty ones included
linesOf(s) ==
    LET breaks == { i \in 1..Len(s) : s[i] = "\n" }
        \* the position of the k-th line break; 0 and Len(s) + 1 bound the text
        at(k) == IF k = 0 THEN 0
                 ELSE IF k > Cardinality(breaks) THEN Len(s) + 1
                 ELSE CHOOSE i \in breaks : Cardinality({ j \in breaks : j < i }) = k - 1
    IN [k \in 1..Cardinality(breaks) + 1 |-> SubSeq(s, at(k - 1) + 1, at(k) - 1)]
\* the number of item lines the claim allows for a style
FmtLimit(style) ==
    CASE style \in {"headline-first", "key-points"} -> 8
      [] style = "risks" -> 6
      [] OTHER -> 10
FmtFooter(style) ==
    CASE style = "headline-first" -> <<"U+2014 End of headlines U+2014">>
      [] style = "key-points" -> <<"U+2014 End of key points U+2014">>
      [] style = "risks" -> <<"U+2014 Risk scan complete U+2014">>
      [] OTHER -> <<"U+2014 End of summary U+2014">>
\* the line is numbered i (after the marker of the risks style, if any) and
\* ends with the url of the item
IsItemLine(line, i, it) ==
    LET tag == NumStr(i) \o <<"] ">>
    IN /\ Len(line) > 1 + Len(tag) + Len(it.url)
       /\ line[1] \in {"[", "U+26A0 U+FE0E ["}
       /\ SubSeq(line, 2, Len(tag) + 1) = tag
       /\ SubSeq(line, Len(line) - Len(it.url) + 1, Len(line)) = it.url

\* C27: for every list of items, language and style, styleAwareFallback
\* returns a text made of a header line, an empty line, one numbered line for
\* each of the first items in input order (at most 8 for headline-first and
\* key-points, 6 for risks, 10 for balanced), an empty line and the footer of
\* the style; two calls with the same arguments return the same text.
C27_FallbackShape ==
    \A r \in result :
        args.fn = "styleAwareFallback" =>
            LET L == linesOf(r.text)
                n == Min(Len(args.items), FmtLimit(args.style))
                tail == NumStr(Len(args.items)) \o <<" item(s):">>
            IN /\ Len(L) = IF n = 0 THEN 5 ELSE n + 4
               /\ Len(L[1]) > Len(tail)
               /\ SubSeq(L[1], Len(L[1]) - Len(tail) + 1, Len(L[1])) = tail
               /\ \E j \in 1..Len(L[1]) - 1 : SubSeq(L[1], j, j + 1) = args.lang
               /\ L[2] = <<>> /\ L[Len(L) - 1] = <<>>
               /\ L[Len(L)] = FmtFooter(args.style)
               /\ \A i \in 1..n : IsItemLine(L[2 + i], i, args.items[i])
               /\ \A q \in result : q.text = r.text

\* the second call of the risks style over seven items returned six lines
C27_Witness ==
    /\ args # <<>> /\ args.fn = "styleAwareFallback"
    /\ args.style = "risks" /\ Len(args.items) = 7
    /\ \E r \in result : r.call = 2 /\ Len(linesOf(r.text)) = 10

\* C28: a check issues one INCR on the key of its client, before anything
\* else, and an EXPIRE exactly when that INCR returned 1; the result says
\* allowed exactly when the returned count is at most max, and remaining is
\* max(0, max - count).
C28_CheckAsDocumented ==
    \A c \in DOMAIN checks :
        LET k == checks[c]
            issued(cmd) == Cardinality({ i \in DOMAIN k.calls : k.calls[i] = cmd })
        IN /\ issued("INCR") <= 1
           /\ k.pc # "incr" => issued("INCR") = 1 /\ k.calls[1] = "INCR"
           /\ issued("EXPIRE") = IF k.current = {1} /\ k.pc # "expire" THEN 1 ELSE 0
           /\ k.pc = "done" =>
                 \E o \in k.out :
                    /\ o.current = The(k.current) /\ o.key = keyFor(k.ip)
                    /\ o.allowed <=> o.current <= args.max
                    /\ o.remaining = Max(0, args.max - o.current)

\* with max 2, three checks of one client returned: the first hit set the
\* expiry and left 1, the third was refused with 0 remaining
C28_Witness ==
    /\ args # <<>> /\ args.fn = "RateLimiter.check" /\ args.max = 2 /\ Len(checks) = 3
    /\ \A c \in 1..3 : checks[c].pc = "done" /\ checks[c].ip = checks[1].ip
    /\ \E c \in 1..3 : checks[c].calls = <<"INCR", "EXPIRE", "TTL">>
                           /\ The(checks[c].out).remaining = 1
    /\ \E c \in 1..3 : ~The(checks[c].out).allowed /\ The(checks[c].out).remaining = 0

\* C29: while the counter of a key is not reset, however the checks of one
\* client interleave, no two of them get the same count from INCR and at
\* most max of them are allowed.
C29_AtMostMaxAllowed ==
    \A ip \in ClientIps :
        LET mine == { c \in DOMAIN checks : checks[c].ip = ip }
        IN /\ \A c, d \in mine :
                 (c # d /\ checks[c].current # {}) => checks[c].current # checks[d].current
           /\ Cardinality({ c \in mine : \E o \in checks[c].out : o.allowed }) <= args.max

\* the second check of a client returned allowed while the first was still
\* waiting for its EXPIRE, and the third was refused
C29_Witness ==
    /\ args # <<>> /\ args.fn = "RateLimiter.check" /\ args.max = 2 /\ Len(checks) = 3
    /\ \A c \in 1..3 : checks[c].ip = checks[1].ip
    /\ checks[1].pc = "expire"
    /\ checks[2].pc = "done" /\ The(checks[2].out).allowed
    /\ checks[3].pc = "done" /\ ~The(checks[3].out).allowed

\* C30: every rate-limit counter in the store carries an expiry, whatever
\* happened to the EXPIRE that follows the first INCR, so a refused client is
\* allowed again when the window is over.
C30_CountersExpire ==
    \A k \in DOMAIN store : store[k].expiresAt # -1

\* C31: no article index is handed to summarizeOne twice, the indices
\* handed out so far are 0, 1, 2, ... without a gap, and a batch that
\* returns has handed out every index from 0 to articles.length - 1, each to
\* one worker.
C31_EachIndexOnce ==
    (batch # <<>> /\ args.fn = "summarizeBatch") =>
        /\ \A i, j \in DOMAIN batch.calls :
              i # j => batch.calls[i].current # batch.calls[j].current
        /\ { batch.calls[i].current : i \in DOMAIN batch.calls } = 0..(Len(batch.calls) - 1)
        /\ Len(batch.calls) <= Len(args.articles)
        /\ batch.status = "returned" => Len(batch.calls) = Len(args.articles)

\* two workers shared four articles and the batch returned: the second
\* worker summarized the last three
C31_Witness ==
    /\ batch # <<>> /\ batch.status = "returned" /\ Len(args.articles) = 4
    /\ Len(batch.workers) = 2
    /\ { i \in DOMAIN batch.calls : batch.calls[i].worker = 2 } = {2, 3, 4}

\* C32: once a summarizeOne call of a batch has failed, the batch returns no
\* result array and no further summarizeOne call is started.
C32_FailureStopsTheBatch ==
    [][(batch # <<>> /\ batch.status = "rejected") =>
          /\ result' = {} /\ batch'.status = "rejected"
          /\ batch'.calls = batch.calls]_vars

\* C33: a payload that summarizeImpl assembles has either a summaryText or a
\* blocks array, never both and never neither, and its blocks array is not
\* empty.
C33_TextOrBlocks ==
    \A p \in payload :
        /\ ("summaryText" \in DOMAIN p) # ("blocks" \in DOMAIN p)
        /\ "blocks" \in DOMAIN p => Len(p.blocks) > 0
        /\ "summaryText" \in DOMAIN p => trim(p.summaryText) # <<>>

\* the model returned blocks that were all dropped, and the payload got the
\* formatter's text and no blocks
C33_Witness ==
    /\ Done /\ Mode = "quality" /\ raw # {}
    /\ ~JSONparse(The(raw)).threw
    /\ Get(The(JSONparse(The(raw)).value), "blocks") = {<<BlockBlank, BlockNoUrl>>}
    /\ \E p \in payload : "summaryText" \in DOMAIN p /\ "blocks" \notin DOMAIN p

\* C34: a payload carries a header, intro or outro only when it carries a
\* non-empty blocks array; a payload whose content is the fallback text has
\* none of the three.
C34_HeaderOnlyWithBlocks ==
    \A p \in payload :
        (DOMAIN p \cap {"header", "intro", "outro"}) # {} =>
            "blocks" \in DOMAIN p /\ Len(p.blocks) > 0

\* C35: with the cache on, a quality request that assembles a payload goes on
\* to write it, fallback text included; the write stores it under the key of
\* the request for 300 seconds; and a quality request that reads a stored
\* text answers 200 with that text and cached true without calling the model.
C35_FallbackIsCached ==
    /\ [][ /\ (pc = "assemble" /\ Mode = "quality" /\ CacheOn /\ payload' # {}) =>
                 pc' = "cacheWrite"
           /\ (pc = "cacheWrite" /\ pc' = "done" /\ Mode = "quality" /\ faults' = faults) =>
                 /\ CacheKey.digest.sha256.mode = "quality"
                 /\ store'[CacheKey] = [value |-> JSONstringify(The(payload)),
                                        expiresAt |-> now + 300] ]_vars
    /\ [] ((Done /\ Mode = "quality" /\ cacheGot # {} /\ faults = {}
              /\ hasText(The(JSONparse(The(cacheGot)).value))) =>
             /\ modelCalls = <<>>
             /\ \E r \in resp :
                   /\ r.statusCode = 200 /\ r.body.cached = TRUE
                   /\ r.body.summaryText = The(JSONparse(The(cacheGot)).value).summaryText)

\* the second quality request, 150 seconds after a first whose model call
\* failed, was answered from the cache with the formatter's text
C35_Witness ==
    /\ Done /\ nreq = 2 /\ Mode = "quality" /\ now = 150 /\ modelCalls = <<>>
    /\ cacheGot # {} /\ CacheKey \in DOMAIN store /\ store[CacheKey].expiresAt = 300
    /\ \E r \in resp :
          /\ r.statusCode = 200 /\ r.body.cached = TRUE /\ r.body.mode = "quality"
          /\ r.body.summaryText = styleAwareFallback(UsableItems, Lang, Style)

\* C36: a fast request answered from the cache gets the summaryText, style
\* and count it would get if its summary were computed.
C36_CacheIsTransparent ==
    (Done /\ Mode = "fast") =>
        \A r \in resp :
            (r.statusCode = 200 /\ r.body.cached = TRUE) =>
                /\ Get(r.body, "summaryText") = {styleAwareFallback(UsableItems, Lang, Style)}
                /\ r.body.style = Style
                /\ r.body.count = Len(UsableItems)

\* the values the event carries under the name x-internal-token, in any case
SentTokens ==
    LET h == OrElse(args.event.headers, <<>>)
    IN UNION { h[i].value : i \in { i \in DOMAIN h :
                                      toLowerCase(h[i].name) = <<"x-internal-token">> } }

\* C37: with INTERNAL_TOKEN configured, the wrapped handler is called only
\* for a request whose x-internal-token header equals the token; a request
\* that is not OPTIONS and carries no such header is answered 401 without
\* the handler being called, and an OPTIONS request is answered 204 without
\* the handler being called, whatever its headers are.
C37_TokenGate ==
    (args.fn = "requireToken" /\ result # {}
     /\ args.INTERNAL_TOKEN # {} /\ args.INTERNAL_TOKEN # {<<>>}) =>
        LET r == The(result)
            t == The(args.INTERNAL_TOKEN)
        IN /\ r.inner => (t \in SentTokens /\ ~isPreflight(args.event))
           /\ isPreflight(args.event) => (r.statusCode = 204 /\ ~r.inner)
           /\ (~isPreflight(args.event) /\ t \notin SentTokens) =>
                  (r.statusCode = 401 /\ ~r.inner)

\* a POST with a wrong token under a capitalised header name is refused
C37_Witness ==
    /\ args.fn = "requireToken" /\ result # {}
    /\ args.INTERNAL_TOKEN = {<<"s">>}
    /\ args.event.method = {<<"POST">>}
    /\ SentTokens = {<<"w">>}
    /\ args.event.headers # {} /\ The(args.event.headers)[1].name = <<"X-Internal-Token">>
    /\ The(result).statusCode = 401 /\ ~The(result).inner

\* the positions in the calls of the last search request of the calls named
CallsOf(calls, names) == { i \in DOMAIN calls : calls[i].call \in names }

\* C38: the search handler increments the rate-limit counter before it reads
\* the search cache, so a request answered from the cache has raised the
\* counter of its client, and a request refused with 400 for a query of less
\* than two characters makes no call to the store or to a provider and
\* leaves the counters as they were.
C38_CacheHitStillCounts ==
    [][ (nreq' = nreq + 1 /\ args.fn = "searchNews") =>
          LET r == The(resp')
              key == rateKey(body'.ip)
          IN /\ \A g \in CallsOf(modelCalls', {"GET"}) :
                   \E i \in CallsOf(modelCalls', {"INCR"}) : i < g /\ modelCalls'[i].ok
             /\ (r.statusCode = 200 /\ r.body.cached) =>
                   /\ CallsOf(modelCalls', {"GET"}) # {}
                   /\ CallsOf(modelCalls', {"gnews", "newsapi"}) = {}
                   /\ key \in DOMAIN store'
                   /\ store'[key].value =
                        (IF key \in DOMAIN store THEN store[key].value ELSE 0) + 1
             /\ r.statusCode = 400 => (modelCalls' = <<>> /\ store' = store)
             /\ Len(trim(body'.q)) < 2 => r.statusCode = 400
      ]_vars

\* a request answered from the cache took its client's counter to 2
C38_Witness ==
    /\ args.fn = "searchNews" /\ resp # {} /\ body # <<>>
    /\ The(resp).statusCode = 200 /\ The(resp).body.cached
    /\ rateKey(body.ip) \in DOMAIN store /\ store[rateKey(body.ip)].value = 2

\* the provider calls of the last search request, in order
ProviderCalls ==
    [i \in 1..Cardinality(CallsOf(modelCalls, {"gnews", "newsapi"})) |->
        modelCalls[CHOOSE k \in CallsOf(modelCalls, {"gnews", "newsapi"}) :
                      Cardinality({ j \in CallsOf(modelCalls, {"gnews", "newsapi"}) : j <= k }) = i]]

\* the provider NEWS_PROVIDER prefers, gnews unless it says newsapi
Preferred == IF toLowerCase(OrElse(args.NEWS_PROVIDER, <<>>)) = <<"n", "e", "w", "s", "a", "p", "i">>
             THEN "newsapi" ELSE "gnews"

\* C39: a search request calls the preferred provider first and the other
\* provider only after the preferred one failed and only if the other's API
\* key is set; it makes at most two provider calls, and when its last
\* provider call failed, the second or the only one, it is answered 502.
C39_ProviderFallback ==
    (args.fn = "searchNews" /\ resp # {}) =>
        LET c == ProviderCalls
        IN /\ Len(c) <= 2
           /\ Len(c) >= 1 => c[1].call = Preferred
           /\ Len(c) = 2 => /\ c[2].call # Preferred
                            /\ ~c[1].ok
                            /\ c[2].call \in args.keys
           /\ (Len(c) = 1 /\ ~c[1].ok) => (args.keys \ {Preferred} = {})
           /\ (Len(c) >= 1 /\ ~c[Len(c)].ok) => The(resp).statusCode = 502

\* both providers were called and both failed
C39_Witness ==
    /\ args.fn = "searchNews" /\ resp # {}
    /\ Len(ProviderCalls) = 2 /\ ~ProviderCalls[1].ok /\ ~ProviderCalls[2].ok
    /\ ProviderCalls[1].call = "newsapi"
    /\ The(resp).statusCode = 502

\* the runs of handleRun that end in this step
RunsEnding ==
    { r \in DOMAIN page'.runs :
        /\ page'.runs[r].pc = "done"
        /\ r \in DOMAIN page.runs => page.runs[r].pc # "done" }

\* C40: a run of handleRun whose summarize call in quality mode failed has
\* made exactly one more summarize call, in fast mode and for the same
\* items, and no run makes a second call otherwise; when a run ends after a
\* fast call that succeeded fellBackToFast is set, when it ends after a fast
\* call that failed an error is shown, and when a run that called summarize
\* ends loading is false.
C40_QualityFallsBackOnce ==
    /\ [][ args.fn = "handleRun" =>
             \A r \in RunsEnding :
                 LET c == page'.runs[r].calls
                 IN /\ Len(c) >= 1 => ~page'.loading
                    /\ (Len(c) = 2 /\ c[2].outcome = "ok") =>
                          (page'.fellBackToFast /\ c[1].outcome = "failed")
                    /\ (Len(c) = 2 /\ c[2].outcome = "failed") => page'.error # <<>>
         ]_vars
    /\ [](args.fn = "handleRun" =>
            \A r \in DOMAIN page.runs :
                LET c == page.runs[r].calls
                    first == IF Len(c) >= 1 THEN c[1] ELSE [mode |-> "none", outcome |-> "none"]
                IN /\ Len(c) <= 2
                   /\ (first.mode = "quality" /\ first.outcome = "failed") <=> Len(c) = 2
                   /\ Len(c) = 2 => /\ c[2].mode = "fast"
                                    /\ c[2].items = c[1].items
                                    /\ c[1].items = page.runs[r].items)

\* a run in quality mode ended after its fast call succeeded
C40_Witness ==
    /\ args.fn = "handleRun" /\ page # <<>> /\ Len(page.runs) >= 1
    /\ page.runs[1].pc = "done" /\ page.runs[1].mode = "quality"
    /\ Len(page.runs[1].calls) = 2
    /\ page.runs[1].calls[1].outcome = "failed" /\ page.runs[1].calls[2].outcome = "ok"
    /\ page.fellBackToFast /\ ~page.loading

====
